---- MODULE Spec2Model ----
(***************************************************************************)
(* A model of the rvhd library: VHD footer / sparse header / BAT codecs,   *)
(* the fixed and sparse extents, the VhdImage facade and the journal.      *)
(*                                                                         *)
(* Fixed-width integers that can exceed the range of TLC's integers (u64   *)
(* sizes, u32 BAT entries, checksums) are sequences of bytes in host       *)
(* (little-endian) order, so that swap_bytes is the reversal of the        *)
(* sequence and a shift drops the bits that leave the word.                *)
(*                                                                         *)
(* A file is its length and a map from sector number to the sector's       *)
(* content; a sector that the map does not mention holds zeros.            *)
(***************************************************************************)
EXTENDS Integers, Sequences, FiniteSets, TLC

\* ------------------------------------------------------------------------
\* Program constants
\* ------------------------------------------------------------------------
SECTOR == 512
DD_BLOCKSIZE_DEFAULT == 2097152
DEFAULT_HEADER_OFFSET == 512
DEFAULT_TABLE_OFFSET == 1536
INVALID_CACHE_INDEX == -1
VHD_JOURNAL_METADATA == 1
VHD_JOURNAL_DATA == 2
JournalHeaderSize == 512
JournalEntrySize == 32
FooterSize == 512
HeaderSize == 1024

\* ------------------------------------------------------------------------
\* Bounds of the model
\* ------------------------------------------------------------------------
MaxCreates == 1
MaxAddBlocks == 2

\* ------------------------------------------------------------------------
\* Bytes and fixed-width integers
\* ------------------------------------------------------------------------
Byte == 0..255

Reverse(s) == [i \in 1..Len(s) |-> s[Len(s) + 1 - i]]

Zeros(n) == [i \in 1..n |-> 0]

RECURSIVE SumBytes(_)
SumBytes(s) == IF s = <<>> THEN 0 ELSE Head(s) + SumBytes(Tail(s))

\* the w low bytes of n, least significant first
RECURSIVE LE(_, _)
LE(n, w) == IF w = 0 THEN <<>> ELSE <<n % 256>> \o LE(n \div 256, w - 1)

\* a byte sequence holds a value below 2^31
Fits31(b) == /\ \A i \in 1..Len(b) : i > 4 => b[i] = 0
             /\ Len(b) >= 4 => b[4] < 128

RECURSIVE ToNat(_)
ToNat(b) == IF b = <<>> THEN 0 ELSE Head(b) + 256 * ToNat(Tail(b))

\* u32::swap_bytes, u64::swap_bytes, u16::swap_bytes
swap_bytes(b) == Reverse(b)

\* the i-th byte of a word, 0 outside it
ByteOf(b, i) == IF i >= 1 /\ i <= Len(b) THEN b[i] ELSE 0

\* x << k on a fixed-width word (Rust: the bits shifted out are lost)
Shl(b, k) ==
    LET q == k \div 8
        m == 2 ^ (k % 8)
    IN  [i \in 1..Len(b) |->
            ((ByteOf(b, i - q) * m) % 256) + ((ByteOf(b, i - q - 1) * m) \div 256)]

\* x >> k on a fixed-width word
Shr(b, k) ==
    LET q == k \div 8
        m == 2 ^ (k % 8)
    IN  [i \in 1..Len(b) |->
            (ByteOf(b, i + q) \div m) + ((ByteOf(b, i + q + 1) % m) * (256 \div m))]

RECURSIVE AddFrom(_, _, _)
AddFrom(a, b, carry) ==
    IF a = <<>> THEN <<>>
    ELSE LET v == Head(a) + Head(b) + carry
         IN  <<v % 256>> \o AddFrom(Tail(a), Tail(b), v \div 256)

\* a < b, words of the same width
RECURSIVE LtFrom(_, _)
LtFrom(ra, rb) ==
    IF ra = <<>> THEN FALSE
    ELSE IF Head(ra) # Head(rb) THEN Head(ra) < Head(rb)
    ELSE LtFrom(Tail(ra), Tail(rb))

U64Lt(a, b) == LtFrom(Reverse(a), Reverse(b))

U64(n) == LE(n, 8)
U32(n) == LE(n, 4)
U16(n) == LE(n, 2)

\* the low 21 bits of a word are all zero
Low21Zero(b) == b[1] = 0 /\ b[2] = 0 /\ b[3] % 32 = 0

\* bat::DD_BLOCK_UNUSED = 0xFFFF_FFFF
DD_BLOCK_UNUSED == <<255, 255, 255, 255>>

\* DD_OFFSET and the footer's data_offset of a fixed image: all ones
DD_OFFSET == <<255, 255, 255, 255, 255, 255, 255, 255>>

\* 2040 * sizes::GIB = 0x1FE_0000_0000
MAX_VHD_SIZE == <<0, 0, 0, 0, 254, 1, 0, 0>>

\* ------------------------------------------------------------------------
\* mod math (the module is not part of the sources; modelled from its uses
\* and from the specification: ceiling division, rounding to a multiple,
\* clipping a request against the capacity)
\* ------------------------------------------------------------------------
ceil(a, b) == (a + b - 1) \div b

round_up(a, b) == ceil(a, b) * b

round_down(a, b) == (a \div b) * b

\* math::ceil(size, DD_BLOCKSIZE_DEFAULT as u64) on a u64
ceil_blocks(size) ==
    IF Low21Zero(size) THEN Shr(size, 21)
    ELSE AddFrom(Shr(size, 21), U64(1), 0)

Min(a, b) == IF a < b THEN a ELSE b

\* math::bound_to(capacity, offset, len): None when the offset is not below
\* the capacity, else the length clipped to the capacity.  -1 stands for None.
bound_to(capacity, offset, len) ==
    IF ~ U64Lt(U64(offset), capacity) THEN -1
    ELSE IF Fits31(capacity) THEN Min(len, ToNat(capacity) - offset)
    ELSE len

\* ------------------------------------------------------------------------
\* Geometry (geometry.rs)
\* ------------------------------------------------------------------------
\* 65535 * 16 * 255 sectors
MaxChsSectors == 267382800

\* 65535 * 16 * 255 * 512 bytes = 0x1F_DFE0_2000
MaxChsBytes == <<0, 32, 224, 223, 31, 0, 0, 0>>

\* Geometry::with_vhd_capacity_and_sector(capacity, 512)
with_vhd_capacity(capacity) ==
    LET total_sectors ==
            IF U64Lt(MaxChsBytes, capacity) THEN MaxChsSectors
            ELSE ToNat(Shr(SubSeq(capacity, 1, 4), 9))     \* capacity as u32 / sector_size
        cth17 == total_sectors \div 17
        h17   == IF (cth17 + 1023) \div 1024 < 4 THEN 4 ELSE (cth17 + 1023) \div 1024
        step2 == cth17 >= h17 * 1024 \/ h17 > 16
        spt2  == IF step2 THEN 31 ELSE 17
        h2    == IF step2 THEN 16 ELSE h17
        cth2  == IF step2 THEN total_sectors \div 31 ELSE cth17
        step3 == cth2 >= h2 * 1024
        spt3  == IF step3 THEN 63 ELSE spt2
        h3    == IF step3 THEN 16 ELSE h2
        big   == total_sectors > 65535 * 16 * 63
        heads == IF big THEN 255 ELSE h3
        spt   == IF big THEN 16 ELSE spt3
    IN  [cylinders |-> (total_sectors \div spt) \div heads,
         heads |-> heads, sectors_per_track |-> spt]

\* ------------------------------------------------------------------------
\* Footer codec (footer.rs).  A footer is the record of its fields, each the
\* sequence of the bytes it occupies in the packed struct.
\* ------------------------------------------------------------------------
\* "conectix"
HD_COOKIE == <<99, 111, 110, 101, 99, 116, 105, 120>>
HD_RESERVED == U32(2)
HD_FF_VERSION == U32(65536)
\* "rvhd"
HD_CR_APP == <<114, 118, 104, 100>>
HD_CR_VERSION == U32(65536)
\* "Wi2k"
HD_CR_OS_WINDOWS == <<87, 105, 50, 107>>

\* VhdType as u32
TypeCode(t) == CASE t = "Fixed" -> 2 [] t = "Dynamic" -> 3 [] t = "Diff" -> 4

\* Uuid::new_v4(): the k-th identifier drawn
NewUuid(k) == <<k, 17, 34, 51, 68, 85, 102, 119, 136, 153, 170, 187, 204, 221, 238, 255>>

NilUuid == Zeros(16)

\* vhd_time(): the clock at the k-th creation
vhd_time(k) == U32(70000 + k)

\* UuidEx::swap_bytes: the first three fields (4 + 2 + 2 bytes) are reversed
uuid_swap_bytes(u) ==
    Reverse(SubSeq(u, 1, 4)) \o Reverse(SubSeq(u, 5, 6)) \o Reverse(SubSeq(u, 7, 8))
        \o SubSeq(u, 9, 16)

FooterIntFields == {"features", "ff_version", "data_offset", "timestamps", "crtr_ver",
                    "orig_size", "curr_size", "cylinders", "disk_type", "checksum"}

FooterFieldOrder == <<"cookie", "features", "ff_version", "data_offset", "timestamps",
                      "crtr_app", "crtr_ver", "crtr_os", "orig_size", "curr_size",
                      "cylinders", "heads", "sectors_per_track", "disk_type", "checksum",
                      "uuid", "saved", "reserved">>

\* VhdFooter::swap_bytes
footer_swap_bytes(f) ==
    [k \in DOMAIN f |->
        IF k \in FooterIntFields THEN swap_bytes(f[k])
        ELSE IF k = "uuid" THEN uuid_swap_bytes(f[k])
        ELSE f[k]]

RECURSIVE SumFields(_, _)
SumFields(rec, order) ==
    IF order = <<>> THEN 0
    ELSE SumBytes(rec[Head(order)]) + SumFields(rec, Tail(order))

\* !sum as u32: the complement of every byte of the 32-bit sum
Not32(sum) == [i \in 1..4 |-> 255 - LE(sum, 4)[i]]

\* a checksum that is the plain sum of the bytes, not its complement
footer_plain_sum(f) == LE(SumFields(f, FooterFieldOrder), 4)

\* calc_header_bytes_checksum over a footer (reserved holds the padding up to
\* its last non-zero byte)
footer_bytes_checksum(f) == Not32(SumFields(f, FooterFieldOrder))

\* calc_header_checksum!: the checksum of a copy whose checksum field is 0
footer_calc_checksum(f) == footer_bytes_checksum([f EXCEPT !.checksum = U32(0)])

\* VhdFooter::new(size, disk_type) with the clock and the identifier drawn
VhdFooter_new(size, disk_type, k) ==
    LET geo == with_vhd_capacity(size)
        f0  == [cookie |-> HD_COOKIE,
                features |-> HD_RESERVED,
                ff_version |-> HD_FF_VERSION,
                data_offset |-> IF disk_type = "Fixed" THEN DD_OFFSET ELSE U64(SECTOR),
                timestamps |-> vhd_time(k),
                crtr_app |-> HD_CR_APP,
                crtr_ver |-> HD_CR_VERSION,
                crtr_os |-> HD_CR_OS_WINDOWS,
                orig_size |-> size,
                curr_size |-> size,
                cylinders |-> U16(geo.cylinders % 65536),
                heads |-> <<geo.heads % 256>>,
                sectors_per_track |-> <<geo.sectors_per_track % 256>>,
                disk_type |-> U32(TypeCode(disk_type)),
                checksum |-> U32(0),
                uuid |-> NewUuid(k),
                saved |-> <<0>>,
                reserved |-> <<>>]
    IN  [f0 EXCEPT !.checksum = footer_bytes_checksum(f0)]

\* a serialisation that leaves the fields in host order
footer_as_is(f) == f

\* VhdFooter::to_bytes
VhdFooter_to_bytes(f) == footer_swap_bytes(f)

\* VhdFooter::disk_type / from_u32
TypeOfCode(b) ==
    IF b = U32(2) THEN "Fixed" ELSE IF b = U32(3) THEN "Dynamic"
    ELSE IF b = U32(4) THEN "Diff" ELSE "Unknown"

footer_disk_type(f) == TypeOfCode(f.disk_type)

footer_current_size(f) == f.curr_size

\* the part of VhdFooter::read after the 512 bytes were read into the struct
VhdFooter_parse(raw) ==
    IF raw.cookie # HD_COOKIE THEN [ok |-> FALSE, err |-> "InvalidHeaderCookie"]
    ELSE LET f == footer_swap_bytes(raw)
         IN  IF f.checksum # footer_calc_checksum(f)
                THEN [ok |-> FALSE, err |-> "InvalidHeaderChecksum"]
             ELSE IF footer_disk_type(f) = "Unknown"
                THEN [ok |-> FALSE, err |-> "UnknownVhdType"]
             ELSE [ok |-> TRUE, err |-> "", val |-> f]

\* ------------------------------------------------------------------------
\* Paths and their UTF-16 code units
\* ------------------------------------------------------------------------
Utf16(p) ==
    CASE p = "a.vhd" -> <<97, 46, 118, 104, 100>>
      [] p = "b.vhd" -> <<98, 46, 118, 104, 100>>
      [] p = "c.vhd" -> <<99, 46, 118, 104, 100>>
      [] p = "d.vhd" -> <<100, 46, 118, 104, 100>>
      [] OTHER -> <<101, 46, 118, 104, 100>>

\* the bytes of a sequence of u16 code units in host order
RECURSIVE UnitBytes(_)
UnitBytes(u) ==
    IF u = <<>> THEN <<>> ELSE <<Head(u) % 256, Head(u) \div 256>> \o UnitBytes(Tail(u))

\* ------------------------------------------------------------------------
\* Sparse header codec (sparse/header.rs)
\* ------------------------------------------------------------------------
PLAT_CODE_NONE == U32(0)
\* 0x5732_7275
PLAT_CODE_W2RU == <<117, 114, 50, 87>>
\* 0x5732_6B75
PLAT_CODE_W2KU == <<117, 107, 50, 87>>
\* "cxsparse"
DD_COOKIE == <<99, 120, 115, 112, 97, 114, 115, 101>>
DD_VERSION == U32(65536)

EmptyLocator == [code |-> PLAT_CODE_NONE, data_space |-> U32(0), data_len |-> U32(0),
                 res |-> U32(0), data_offset |-> U64(0)]

locator_swap_bytes(l) ==
    [l EXCEPT !.code = swap_bytes(@), !.data_len = swap_bytes(@),
              !.data_space = swap_bytes(@), !.data_offset = swap_bytes(@)]

\* VhdHeader::swap_bytes
header_swap_bytes(h) ==
    [h EXCEPT !.data_offset = swap_bytes(@), !.table_offset = swap_bytes(@),
              !.hdr_ver = swap_bytes(@), !.max_bat_size = swap_bytes(@),
              !.block_size = swap_bytes(@), !.checksum = swap_bytes(@),
              !.prt_uuid = uuid_swap_bytes(@), !.prt_ts = swap_bytes(@),
              !.prt_loc = [i \in 1..8 |-> locator_swap_bytes(@[i])]]

LocatorSum(l) ==
    SumBytes(l.code) + SumBytes(l.data_space) + SumBytes(l.data_len) + SumBytes(l.res)
        + SumBytes(l.data_offset)

RECURSIVE SumLocators(_)
SumLocators(ls) == IF ls = <<>> THEN 0 ELSE LocatorSum(Head(ls)) + SumLocators(Tail(ls))

\* calc_header_bytes_checksum over a sparse header (res2 holds the padding up
\* to its last non-zero byte)
header_bytes_checksum(h) ==
    Not32(SumBytes(h.cookie) + SumBytes(h.data_offset) + SumBytes(h.table_offset)
          + SumBytes(h.hdr_ver) + SumBytes(h.max_bat_size) + SumBytes(h.block_size)
          + SumBytes(h.checksum) + SumBytes(h.prt_uuid) + SumBytes(h.prt_ts)
          + SumBytes(h.res1) + SumBytes(UnitBytes(h.prt_name)) + SumLocators(h.prt_loc)
          + SumBytes(h.res2))

header_calc_checksum(h) == header_bytes_checksum([h EXCEPT !.checksum = U32(0)])

header_table_offset(h) == ToNat(h.table_offset)
header_max_bat_size(h) == ToNat(h.max_bat_size)
header_block_size(h) == ToNat(h.block_size)

\* a VhdHeader::new that leaves the parent's uuid out of the header
header_without_parent_uuid(capacity, table_offset, block_size, parent) ==
    [cookie |-> DD_COOKIE, data_offset |-> DD_OFFSET, table_offset |-> U64(table_offset),
     hdr_ver |-> DD_VERSION, max_bat_size |-> SubSeq(ceil_blocks(capacity), 1, 4),
     block_size |-> U32(block_size),
     checksum |-> header_bytes_checksum(
                      [cookie |-> DD_COOKIE, data_offset |-> DD_OFFSET,
                       table_offset |-> U64(table_offset), hdr_ver |-> DD_VERSION,
                       max_bat_size |-> SubSeq(ceil_blocks(capacity), 1, 4),
                       block_size |-> U32(block_size), checksum |-> U32(0),
                       prt_uuid |-> NilUuid, prt_ts |-> U32(0), res1 |-> U32(0),
                       prt_name |-> <<>>, prt_loc |-> [i \in 1..8 |-> EmptyLocator],
                       res2 |-> <<>>]),
     prt_uuid |-> NilUuid, prt_ts |-> U32(0), res1 |-> U32(0), prt_name |-> <<>>,
     prt_loc |-> [i \in 1..8 |-> EmptyLocator], res2 |-> <<>>]

\* VhdHeader::new.  parent is the parent's footer and path, or has has = FALSE.
VhdHeader_new(capacity, table_offset, block_size, parent) ==
    LET max_bat  == SubSeq(ceil_blocks(capacity), 1, 4)     \* math::ceil(..) as u32
        bat_size == round_up(ToNat(max_bat) * 4, SECTOR)
        loc0     == [code |-> PLAT_CODE_W2KU,
                     data_space |-> U32(SECTOR),
                     data_len |-> U32(Len(Utf16(parent.path)) * 2),
                     res |-> U32(0),
                     data_offset |-> U64(table_offset + bat_size)]
        h0 == [cookie |-> DD_COOKIE,
               data_offset |-> DD_OFFSET,
               table_offset |-> U64(table_offset),
               hdr_ver |-> DD_VERSION,
               max_bat_size |-> max_bat,
               block_size |-> U32(block_size),
               checksum |-> U32(0),
               prt_uuid |-> IF parent.has THEN parent.footer.uuid ELSE NilUuid,
               prt_ts |-> IF parent.has THEN parent.footer.timestamps ELSE U32(0),
               res1 |-> U32(0),
               prt_name |-> IF parent.has THEN Utf16(parent.path) ELSE <<>>,
               prt_loc |-> [i \in 1..8 |-> IF parent.has /\ i = 1 THEN loc0 ELSE EmptyLocator],
               res2 |-> <<>>]
    IN  [h0 EXCEPT !.checksum = header_bytes_checksum(h0)]

\* The form of VhdHeader::new that SparseExtent::create calls also fills slot 1
\* with the W2ru locator (the relative path ".\name"), one sector after slot 0.
RelativeUnits(path) == <<46, 92>> \o Utf16(path)

with_relative_locator(h, parent) ==
    IF ~ parent.has THEN h
    ELSE LET loc1 == [code |-> PLAT_CODE_W2RU,
                      data_space |-> U32(SECTOR),
                      data_len |-> U32(Len(RelativeUnits(parent.path)) * 2),
                      res |-> U32(0),
                      data_offset |-> U64(ToNat(h.prt_loc[1].data_offset) + SECTOR)]
             h1 == [h EXCEPT !.prt_loc[2] = loc1, !.checksum = U32(0)]
         IN  [h1 EXCEPT !.checksum = header_bytes_checksum(h1)]

\* the part of VhdHeader::read after the 1024 bytes were read into the struct
VhdHeader_parse(raw) ==
    IF raw.cookie # DD_COOKIE THEN [ok |-> FALSE, err |-> "InvalidSparseHeaderCookie"]
    ELSE LET h == header_swap_bytes(raw)
         IN  IF h.checksum # header_calc_checksum(h)
                THEN [ok |-> FALSE, err |-> "InvalidSparseHeaderChecksum"]
             ELSE [ok |-> TRUE, err |-> "", val |-> h]

\* ------------------------------------------------------------------------
\* BAT (sparse/bat.rs): the table is a sequence, entry i at position i + 1
\* ------------------------------------------------------------------------
VhdBat_new(entries) == [i \in 1..entries |-> DD_BLOCK_UNUSED]

block_id(bat, index) ==
    IF index >= 0 /\ index < Len(bat)
        THEN [ok |-> TRUE, err |-> "", val |-> bat[index + 1]]
    ELSE [ok |-> FALSE, err |-> "InvalidBlockIndex"]

\* as written: the bounds check rejects the indices inside the table, and an
\* index outside it reaches the indexing, which panics
set_block_id(bat, index, id) ==
    IF index < Len(bat) THEN [ok |-> FALSE, err |-> "InvalidBlockIndex", bat |-> bat]
    ELSE [ok |-> FALSE, err |-> "panic", bat |-> bat]

\* ------------------------------------------------------------------------
\* Files.  A file is [len, sec]: its length in bytes and the content of the
\* sectors that are not all zero.  A sector holds raw bytes (the non-zero ones,
\* by offset) or a serialised record: a footer, one half of a sparse header,
\* 128 BAT entries, or a parent locator blob.
\* ------------------------------------------------------------------------
NoFile == [len |-> -1, sec |-> <<>>]
EmptyFile == [len |-> 0, sec |-> <<>>]
ZeroCell == [t |-> "raw", b |-> <<>>]

Exists(f) == f.len >= 0

Max(a, b) == IF a > b THEN a ELSE b

Pad(s, n) == [i \in 1..n |-> IF i <= Len(s) THEN s[i] ELSE 0]

RECURSIVE ConcatFields(_, _)
ConcatFields(rec, order) ==
    IF order = <<>> THEN <<>> ELSE rec[Head(order)] \o ConcatFields(rec, Tail(order))

\* the 512 bytes of a footer on disk
FooterSeq(d) == Pad(ConcatFields(d, FooterFieldOrder), FooterSize)

LocatorSeq(l) == l.code \o l.data_space \o l.data_len \o l.res \o l.data_offset

RECURSIVE LocatorsSeq(_)
LocatorsSeq(ls) == IF ls = <<>> THEN <<>> ELSE LocatorSeq(Head(ls)) \o LocatorsSeq(Tail(ls))

\* the 1024 bytes of a sparse header on disk
HeaderSeq(d) ==
    Pad(d.cookie \o d.data_offset \o d.table_offset \o d.hdr_ver \o d.max_bat_size
        \o d.block_size \o d.checksum \o d.prt_uuid \o d.prt_ts \o d.res1
        \o Pad(UnitBytes(d.prt_name), 512) \o LocatorsSeq(d.prt_loc) \o d.res2, HeaderSize)

\* byte k (0..511) of a sector
CellByte(cell, k) ==
    CASE cell.t = "raw" -> IF k \in DOMAIN cell.b THEN cell.b[k] ELSE 0
      [] cell.t = "ftr" -> FooterSeq(cell.b)[k + 1]
      [] cell.t = "hdr" -> HeaderSeq(cell.b)[SECTOR * cell.part + k + 1]
      [] cell.t = "bat" -> cell.e[(k \div 4) + 1][(k % 4) + 1]
      [] cell.t = "loc" -> Pad(UnitBytes(cell.u), SECTOR)[k + 1]

\* the non-zero bytes of a sector, by offset
CellSparse(cell) ==
    IF cell.t = "raw" THEN cell.b
    ELSE LET nz == {k \in 0..(SECTOR - 1) : CellByte(cell, k) # 0}
         IN  [k \in nz |-> CellByte(cell, k)]

CellAt(f, s) == IF s \in DOMAIN f.sec THEN f.sec[s] ELSE ZeroCell

\* a whole sector is replaced; the file grows to cover it
PutCell(f, s, cell) ==
    [len |-> Max(f.len, (s + 1) * SECTOR),
     sec |-> IF cell = ZeroCell
                THEN [k \in DOMAIN f.sec \ {s} |-> f.sec[k]]
                ELSE [k \in DOMAIN f.sec \cup {s} |-> IF k = s THEN cell ELSE f.sec[k]]]

RECURSIVE PutCells(_, _, _)
PutCells(f, s, cells) ==
    IF cells = <<>> THEN f ELSE PutCells(PutCell(f, s, Head(cells)), s + 1, Tail(cells))

\* the sector s after data was written at byte offset off of the file
OverlayCell(f, s, off, data) ==
    LET old == CellAt(f, s)
        new(k) == LET i == s * SECTOR + k - off + 1
                  IN  IF i >= 1 /\ i <= Len(data) THEN data[i] ELSE CellByte(old, k)
        nz == {k \in 0..(SECTOR - 1) : new(k) # 0}
    IN  [t |-> "raw", b |-> [k \in nz |-> new(k)]]

\* a 4-byte BAT entry is replaced inside a BAT sector
PutBatEntry(f, off, entry) ==
    LET s == off \div SECTOR
        i == ((off % SECTOR) \div 4) + 1
        old == CellAt(f, s)
    IN  IF old.t = "bat" /\ off % 4 = 0
           THEN PutCell(f, s, [old EXCEPT !.e[i] = entry])
        ELSE PutCell(f, s, OverlayCell(f, s, off, entry))

\* File::write at an offset: the bytes land, a gap before them reads as zeros
RECURSIVE WriteFrom(_, _, _, _)
WriteFrom(f, s, off, data) ==
    IF s * SECTOR >= off + Len(data) THEN f
    ELSE WriteFrom(PutCell(f, s, OverlayCell(f, s, off, data)), s + 1, off, data)

WriteBytes(f, off, data) ==
    IF data = <<>> THEN f
    ELSE LET g == WriteFrom(f, off \div SECTOR, off, data)
         IN  [g EXCEPT !.len = Max(f.len, off + Len(data))]

\* File::read at an offset: what the file holds, cut at its end
ReadBytes(f, off, n) ==
    LET m == IF off >= f.len THEN 0 ELSE Min(n, f.len - off)
    IN  [i \in 1..m |-> CellByte(CellAt(f, (off + i - 1) \div SECTOR), (off + i - 1) % SECTOR)]

\* VhdFile::open is File::open (read-only), VhdFile::create is File::create
\* (write-only, truncating): a read on the latter and a write on the former
\* fail with an I/O error.
CanRead(mode) == mode # "wo"
CanWrite(mode) == mode # "ro"
VhdFile_open_mode == "ro"
VhdFile_create_mode == "wo"

\* ReadAt::read_exact_at of n bytes whose sectors are whole in the file
ExactReadable(f, off, n) == off + n <= f.len

\* a sequence without its trailing zeros
Trim(q) ==
    LET nz == {i \in 1..Len(q) : q[i] # 0}
    IN  IF nz = {} THEN <<>>
        ELSE SubSeq(q, 1, CHOOSE m \in nz : \A j \in nz : j <= m)

\* 512 bytes reinterpreted as the packed footer struct
FooterOfSeq(q) ==
    [cookie |-> SubSeq(q, 1, 8), features |-> SubSeq(q, 9, 12),
     ff_version |-> SubSeq(q, 13, 16), data_offset |-> SubSeq(q, 17, 24),
     timestamps |-> SubSeq(q, 25, 28), crtr_app |-> SubSeq(q, 29, 32),
     crtr_ver |-> SubSeq(q, 33, 36), crtr_os |-> SubSeq(q, 37, 40),
     orig_size |-> SubSeq(q, 41, 48), curr_size |-> SubSeq(q, 49, 56),
     cylinders |-> SubSeq(q, 57, 58), heads |-> SubSeq(q, 59, 59),
     sectors_per_track |-> SubSeq(q, 60, 60), disk_type |-> SubSeq(q, 61, 64),
     checksum |-> SubSeq(q, 65, 68), uuid |-> SubSeq(q, 69, 84),
     saved |-> SubSeq(q, 85, 85), reserved |-> Trim(SubSeq(q, 86, 512))]

LocatorOfSeq(q) ==
    [code |-> SubSeq(q, 1, 4), data_space |-> SubSeq(q, 5, 8), data_len |-> SubSeq(q, 9, 12),
     res |-> SubSeq(q, 13, 16), data_offset |-> SubSeq(q, 17, 24)]

UnitsOfSeq(q) == Trim([i \in 1..(Len(q) \div 2) |-> q[2 * i - 1] + 256 * q[2 * i]])

\* 1024 bytes reinterpreted as the packed sparse header struct
HeaderOfSeq(q) ==
    [cookie |-> SubSeq(q, 1, 8), data_offset |-> SubSeq(q, 9, 16),
     table_offset |-> SubSeq(q, 17, 24), hdr_ver |-> SubSeq(q, 25, 28),
     max_bat_size |-> SubSeq(q, 29, 32), block_size |-> SubSeq(q, 33, 36),
     checksum |-> SubSeq(q, 37, 40), prt_uuid |-> SubSeq(q, 41, 56),
     prt_ts |-> SubSeq(q, 57, 60), res1 |-> SubSeq(q, 61, 64),
     prt_name |-> UnitsOfSeq(SubSeq(q, 65, 576)),
     prt_loc |-> [i \in 1..8 |-> LocatorOfSeq(SubSeq(q, 577 + 24 * (i - 1), 576 + 24 * i))],
     res2 |-> Trim(SubSeq(q, 769, 1024))]

\* ReadAt::read_exact_at: the loop reads again at the same offset after a short
\* read, so the buffer is filled with repetitions of what the file holds from
\* the offset to its end; it fails only when nothing can be read.
read_exact_at(f, mode, off, n) ==
    IF ~ CanRead(mode) THEN [ok |-> FALSE, err |-> "Io"]
    ELSE IF n = 0 THEN [ok |-> TRUE, err |-> "", val |-> <<>>]
    ELSE IF off >= f.len THEN [ok |-> FALSE, err |-> "UnexpectedEOD"]
    ELSE LET avail == Min(n, f.len - off)
             got   == ReadBytes(f, off, avail)
         IN  [ok |-> TRUE, err |-> "", val |-> [i \in 1..n |-> got[((i - 1) % avail) + 1]]]

\* the footer struct filled by read_exact_at(pos, 512 bytes)
ReadFooterStruct(f, mode, pos) ==
    IF CanRead(mode) /\ pos % SECTOR = 0 /\ ExactReadable(f, pos, FooterSize)
          /\ CellAt(f, pos \div SECTOR).t = "ftr"
       THEN [ok |-> TRUE, err |-> "", val |-> CellAt(f, pos \div SECTOR).b]
    ELSE LET r == read_exact_at(f, mode, pos, FooterSize)
         IN  IF r.ok THEN [ok |-> TRUE, err |-> "", val |-> FooterOfSeq(r.val)] ELSE r

\* the header struct filled by read_exact_at(pos, 1024 bytes)
ReadHeaderStruct(f, mode, pos) ==
    LET c0 == CellAt(f, pos \div SECTOR)
        c1 == CellAt(f, (pos \div SECTOR) + 1)
    IN  IF CanRead(mode) /\ pos % SECTOR = 0 /\ ExactReadable(f, pos, HeaderSize)
              /\ c0.t = "hdr" /\ c1.t = "hdr" /\ c0.part = 0 /\ c1.part = 1 /\ c0.b = c1.b
           THEN [ok |-> TRUE, err |-> "", val |-> c0.b]
        ELSE LET r == read_exact_at(f, mode, pos, HeaderSize)
             IN  IF r.ok THEN [ok |-> TRUE, err |-> "", val |-> HeaderOfSeq(r.val)] ELSE r

\* VhdFooter::read
VhdFooter_read(f, mode, pos) ==
    LET r == ReadFooterStruct(f, mode, pos)
    IN  IF r.ok THEN VhdFooter_parse(r.val) ELSE r

\* VhdHeader::read
VhdHeader_read(f, mode, pos) ==
    LET r == ReadHeaderStruct(f, mode, pos)
    IN  IF r.ok THEN VhdHeader_parse(r.val) ELSE r

\* VhdBat::read: entries * 4 bytes, each entry byte-swapped
VhdBat_read(f, mode, offset, entries) ==
    LET r == read_exact_at(f, mode, offset, entries * 4)
    IN  IF ~ r.ok THEN r
        ELSE [ok |-> TRUE, err |-> "",
              val |-> [i \in 1..entries |-> swap_bytes(SubSeq(r.val, 4 * i - 3, 4 * i))]]

\* the sectors VhdBat::write puts on disk: the swapped entries, padded with
\* 0xFF to a sector boundary
BatCells(bat) ==
    LET size == round_up(Len(bat) * 4, SECTOR)
    IN  [c \in 1..(size \div SECTOR) |->
            [t |-> "bat",
             e |-> [j \in 1..128 |->
                       LET i == 128 * (c - 1) + j
                       IN  IF i <= Len(bat) THEN swap_bytes(bat[i]) ELSE DD_BLOCK_UNUSED]]]

\* Bind(v, K) is K applied to the value v: "let r be v in K(r)"
Bind(v, K(_)) == K(v)

\* ------------------------------------------------------------------------
\* Sparse extent (sparse.rs).  A world w is [fs, h, dbg, junk]: the file
\* system, the extent (path, mode of its file handle, header, bat, the bitmap
\* cache cbi / cbm / dirty, next_block_pos nbp, parent), whether the build has
\* debug assertions, and the value an uninitialised byte happens to hold.
\* Every operator returns [w, ok, err, val]; err = "panic" is a panic.
\* ------------------------------------------------------------------------
Ok(w, v) == [w |-> w, ok |-> TRUE, err |-> "", val |-> v]
Err(w, e) == [w |-> w, ok |-> FALSE, err |-> e, val |-> 0]

\* r ? K: the error of r, or K applied to r when r is Ok
Try(r, K(_)) == IF r.ok THEN K(r) ELSE r

TheFile(w) == w.fs[w.h.path]
SetFile(w, f) == [w EXCEPT !.fs[w.h.path] = f]

NoImage == [kind |-> "none"]

\* VhdFile::write_all_at of bytes
file_write_all_at(w, off, data) ==
    IF data = <<>> THEN Ok(w, 0)
    ELSE IF ~ CanWrite(w.h.mode) THEN Err(w, "Io")
    ELSE Ok(SetFile(w, WriteBytes(TheFile(w), off, data)), Len(data))

\* VhdFile::write_all_at of whole serialised sectors at a sector boundary
file_put_cells(w, off, cells) ==
    IF cells = <<>> THEN Ok(w, 0)
    ELSE IF ~ CanWrite(w.h.mode) THEN Err(w, "Io")
    ELSE Ok(SetFile(w, PutCells(TheFile(w), off \div SECTOR, cells)), Len(cells) * SECTOR)

\* VhdFile::read_at: File::read returns what the file holds up to its end
file_read_at(w, off, n) ==
    IF ~ CanRead(w.h.mode) THEN Err(w, "Io")
    ELSE Ok(w, ReadBytes(TheFile(w), off, n))

\* the bitmap buffer as the sectors written to the file
BitmapCells(cbm, bmlen) ==
    [c \in 1..(bmlen \div SECTOR) |->
        [t |-> "raw",
         b |-> [k \in {j \in 0..(SECTOR - 1) : (c - 1) * SECTOR + j \in DOMAIN cbm}
                    |-> cbm[(c - 1) * SECTOR + k]]]]

\* the bitmap buffer filled by read_exact_at(pos, bmlen bytes)
BitmapRead(f, mode, pos, bmlen) ==
    IF CanRead(mode) /\ pos % SECTOR = 0 /\ ExactReadable(f, pos, bmlen)
       THEN [ok |-> TRUE, err |-> "",
             val |-> [k \in {j \in 0..(bmlen - 1) :
                                (j % SECTOR) \in DOMAIN CellSparse(CellAt(f, (pos + j) \div SECTOR))}
                         |-> CellSparse(CellAt(f, (pos + k) \div SECTOR))[k % SECTOR]]]
    ELSE Bind(read_exact_at(f, mode, pos, bmlen), LAMBDA r :
             IF ~ r.ok THEN r
             ELSE [ok |-> TRUE, err |-> "",
                   val |-> [k \in {j \in 0..(bmlen - 1) : r.val[j + 1] # 0} |-> r.val[k + 1]]])

\* calc_sector_mask
calc_sector_mask(sector_in_block) == 2 ^ (7 - (sector_in_block % 8))

BitmapByte(cbm, i) == IF i \in DOMAIN cbm THEN cbm[i] ELSE 0

BitSet(cbm, sector_in_block) ==
    (BitmapByte(cbm, sector_in_block \div 8) \div calc_sector_mask(sector_in_block)) % 2 = 1

\* SparseExtent::save_cached_bitmap
save_cached_bitmap(w) ==
    IF w.h.cbi = INVALID_CACHE_INDEX \/ ~ w.h.dirty THEN Ok(w, TRUE)
    ELSE Bind(block_id(w.h.bat, w.h.cbi), LAMBDA id :
         IF ~ id.ok THEN Err(w, id.err)
         ELSE IF id.val = DD_BLOCK_UNUSED THEN Err(w, "UnexpectedBlockId")
         ELSE Try(file_put_cells(w, w.h.cbi * SECTOR, BitmapCells(w.h.cbm, w.h.bmlen)),
                  LAMBDA wr : Ok([wr.w EXCEPT !.h.dirty = FALSE], TRUE)))

\* the value populate_block_bitmap returns for a block whose BAT entry is UNUSED
populate_unused_result == TRUE

\* SparseExtent::populate_block_bitmap, after the cache was written back
populate_read(w, index, id) ==
    Bind(BitmapRead(TheFile(w), w.h.mode, ToNat(id) * SECTOR, w.h.bmlen), LAMBDA rd :
         IF ~ rd.ok THEN Err(w, rd.err)
         ELSE Ok([w EXCEPT !.h.cbm = rd.val, !.h.cbi = index], TRUE))

\* a populate_block_bitmap that reports every block as not in the file
populate_reports_unused(w, index) == Ok(w, FALSE)

\* SparseExtent::populate_block_bitmap
populate_block_bitmap(w, index) ==
    IF w.h.cbi = index THEN Ok(w, TRUE)
    ELSE Bind(block_id(w.h.bat, index), LAMBDA id :
         IF ~ id.ok THEN Err(w, id.err)
         ELSE IF id.val = DD_BLOCK_UNUSED THEN Ok(w, populate_unused_result)
         ELSE Try(save_cached_bitmap(w), LAMBDA sv : populate_read(sv.w, index, id.val)))

\* SparseExtent::check_sector_mask
check_sector_mask(w, index, sector_in_block) ==
    Try(IF w.h.cbi # index THEN populate_block_bitmap(w, index) ELSE Ok(w, TRUE), LAMBDA p :
        IF ~ p.val THEN Ok(p.w, FALSE)
        ELSE IF w.dbg /\ p.w.h.cbi # index THEN Err(p.w, "panic")      \* debug_assert_eq!
        ELSE IF sector_in_block \div 8 >= p.w.h.bmlen THEN Err(p.w, "panic")
        ELSE Ok(p.w, BitSet(p.w.h.cbm, sector_in_block)))

\* the number of sectors read_sectors counts: the sectors from sector_in_block
\* on whose bit equals the first one's, at most lim of them
SameBits(cbm, sector_in_block, bit, lim) ==
    CHOOSE c \in 1..lim :
        /\ \A j \in 1..(c - 1) : BitSet(cbm, sector_in_block + j) = bit
        /\ c = lim \/ BitSet(cbm, sector_in_block + c) # bit

\* SparseExtent::read_sectors; val is <<first_sector_bit, length in bytes>>
read_sectors(w, to_read, block_index, sector_in_block) ==
    Try(check_sector_mask(w, block_index, sector_in_block), LAMBDA first :
        Bind(SameBits(first.w.h.cbm, sector_in_block, first.val, Max(to_read \div SECTOR, 1)),
             LAMBDA count :
                IF (sector_in_block + count - 1) \div 8 >= first.w.h.bmlen
                   THEN Err(first.w, "panic")
                ELSE Ok(first.w, <<first.val, count * SECTOR>>)))

\* SparseExtent::calc_sector_pos
calc_sector_pos(w, block_index, sector_in_block) ==
    Bind(block_id(w.h.bat, block_index), LAMBDA id :
         IF ~ id.ok THEN Err(w, id.err)
         ELSE IF id.val = DD_BLOCK_UNUSED THEN Err(w, "UnexpectedBlockId")
         ELSE Ok(w, (ToNat(id.val) + sector_in_block) * SECTOR + w.h.bmlen))

\* SparseExtent::calc_bitmap_pos
calc_bitmap_pos(w, block_index) ==
    Bind(block_id(w.h.bat, block_index), LAMBDA id :
         IF ~ id.ok THEN Err(w, id.err)
         ELSE IF id.val = DD_BLOCK_UNUSED THEN Err(w, "UnexpectedBlockId")
         ELSE Ok(w, ToNat(id.val) * SECTOR))

RECURSIVE VhdImage_read_at(_, _, _)

\* SparseExtent::read_parent_or_zero
read_parent_or_zero(w, offset, n) ==
    IF w.h.parent.kind = "none" THEN Ok(w, Zeros(n))
    ELSE Bind(VhdImage_read_at([fs |-> w.fs, img |-> w.h.parent, dbg |-> w.dbg,
                                junk |-> w.junk], offset, n), LAMBDA r :
              [w |-> [w EXCEPT !.fs = r.iw.fs, !.h.parent = r.iw.img],
               ok |-> r.ok, err |-> r.err, val |-> r.val])

\* SparseExtent::read_block_data once the sector bits were looked up: chk.val
\* is <<data_exist, length>>
read_block_data_at(chk, block_index, offset_in_block, n) ==
    IF chk.val[2] > n THEN Err(chk.w, "panic")
    ELSE IF chk.val[1]
       THEN Try(calc_sector_pos(chk.w, block_index, offset_in_block \div SECTOR), LAMBDA sp :
                Try(file_read_at(sp.w, sp.val + (offset_in_block % SECTOR), chk.val[2]),
                    LAMBDA rd : Ok(rd.w, <<TRUE, rd.val>>)))
    ELSE Try(read_parent_or_zero(chk.w,
                                 block_index * header_block_size(chk.w.h.header) + offset_in_block,
                                 chk.val[2]),
             LAMBDA rp : Ok(rp.w, <<FALSE, rp.val>>))

\* SparseExtent::read_block_data; val is <<data_exist, bytes read>>
read_block_data(w, block_index, offset_in_block, n) ==
    Try(IF offset_in_block % SECTOR # 0 \/ n < SECTOR
           THEN Try(check_sector_mask(w, block_index, offset_in_block \div SECTOR),
                    LAMBDA c : Ok(c.w, <<c.val, n>>))
        ELSE read_sectors(w, n, block_index, offset_in_block \div SECTOR),
        LAMBDA chk : read_block_data_at(chk, block_index, offset_in_block, n))

\* SparseExtent::read_block; val is the bytes read
read_block(w, offset, n) ==
    LET block_size == header_block_size(w.h.header)
        block_index == offset \div block_size
        offset_in_block == offset % block_size
        to_read == Min(n, block_size - offset_in_block)
    IN  Try(populate_block_bitmap(w, block_index), LAMBDA p :
            IF p.val
               THEN Try(read_block_data(p.w, block_index, offset_in_block, to_read),
                        LAMBDA r : Ok(r.w, r.val[2]))
            ELSE read_parent_or_zero(p.w, offset, to_read))

\* impl ReadAt for SparseExtent
RECURSIVE sparse_read_loop(_, _, _, _)
sparse_read_loop(w, offset, n, acc) ==
    IF n = 0 THEN Ok(w, acc)
    ELSE Try(read_block(w, offset, n), LAMBDA r :
             IF Len(r.val) = 0 THEN Ok(r.w, acc)
             ELSE sparse_read_loop(r.w, offset + Len(r.val), n - Len(r.val), acc \o r.val))

SparseExtent_read_at(w, offset, n) == sparse_read_loop(w, offset, n, <<>>)

\* SparseExtent::mark_cached_bitmap_dirty
mark_cached_bitmap_dirty(w, sector_in_block) ==
    LET i == sector_in_block \div 8
        old == BitmapByte(w.h.cbm, i)
        new == IF BitSet(w.h.cbm, sector_in_block) THEN old
               ELSE old + calc_sector_mask(sector_in_block)
    IN  [w EXCEPT !.h.cbm = [k \in DOMAIN w.h.cbm \cup {i} |-> IF k = i THEN new ELSE w.h.cbm[k]],
                  !.h.dirty = TRUE]

RECURSIVE mark_sectors(_, _, _)
mark_sectors(w, sector_in_block, count) ==
    IF count = 0 THEN w
    ELSE mark_sectors(mark_cached_bitmap_dirty(w, sector_in_block), sector_in_block + 1,
                      count - 1)

\* SparseExtent::allocate_block from "update BAT in memory" on
allocate_bat(w, block_index, block_pos) ==
    Bind(set_block_id(w.h.bat, block_index, U32(block_pos \div SECTOR)), LAMBDA sb :
         IF ~ sb.ok THEN Err(w, sb.err)
         ELSE IF ~ CanWrite(w.h.mode) THEN Err([w EXCEPT !.h.bat = sb.bat], "Io")
         ELSE Ok(SetFile([w EXCEPT !.h.bat = sb.bat],
                         PutBatEntry(TheFile(w), header_table_offset(w.h.header) + block_index * 4,
                                     swap_bytes(U32(block_pos \div SECTOR)))), 0))

\* SparseExtent::allocate_block from the zeroed bitmap on
allocate_at(w, block_index, block_pos, next) ==
    Try(IF block_pos < TheFile(w).len
           THEN file_write_all_at([w EXCEPT !.h.cbm = <<>>, !.h.nbp = next, !.h.cbi = block_index],
                                  block_pos, Zeros(FooterSize))
        ELSE Ok([w EXCEPT !.h.cbm = <<>>, !.h.nbp = next, !.h.cbi = block_index], 0),
        LAMBDA z : Try(file_write_all_at(z.w, next - 1, <<0>>),
                       LAMBDA e : allocate_bat(e.w, block_index, block_pos)))

\* an allocate_block that does not look at the BAT entry first
allocate_unchecked(w, block_index) ==
    Try(save_cached_bitmap(w), LAMBDA sv :
        allocate_at(sv.w, block_index, sv.w.h.nbp,
                    sv.w.h.nbp + sv.w.h.bmlen + header_block_size(sv.w.h.header)))

\* SparseExtent::allocate_block
allocate_block(w, block_index) ==
    Bind(block_id(w.h.bat, block_index), LAMBDA id :
         IF ~ id.ok THEN Err(w, id.err)
         ELSE IF id.val # DD_BLOCK_UNUSED THEN Err(w, "UnexpectedBlockId")
         ELSE Try(save_cached_bitmap(w), LAMBDA sv :
                  allocate_at(sv.w, block_index, sv.w.h.nbp,
                              sv.w.h.nbp + sv.w.h.bmlen + header_block_size(sv.w.h.header))))

\* the offset write_block passes to read_block_data for the sector it updates
rmw_sector_offset(offset_in_block) == round_down(offset_in_block % SECTOR, SECTOR)

\* write_block, the sector that is read, updated and written back; rd.val is
\* <<data_exist, the bytes read>>, the rest of the buffer is uninitialised
write_partial(rd, block_index, offset_in_block, data, to_write) ==
    LET sector_in_block == offset_in_block \div SECTOR
        offset_in_sector == offset_in_block % SECTOR
        sector_buffer ==
            [i \in 1..SECTOR |->
                IF i > offset_in_sector /\ i <= offset_in_sector + to_write
                   THEN data[i - offset_in_sector]
                ELSE IF i <= Len(rd.val[2]) THEN rd.val[2][i] ELSE rd.w.junk]
    IN  Try(calc_sector_pos(rd.w, block_index, sector_in_block), LAMBDA sp :
            Try(file_write_all_at(sp.w, sp.val, sector_buffer), LAMBDA wr :
                Ok(IF ~ rd.val[1] THEN mark_cached_bitmap_dirty(wr.w, sector_in_block) ELSE wr.w,
                   to_write)))

\* write_block, whole sectors
write_whole(w, block_index, sector_in_block, data, to_write) ==
    Try(calc_sector_pos(w, block_index, sector_in_block), LAMBDA sp :
        Try(file_write_all_at(sp.w, sp.val, SubSeq(data, 1, to_write)), LAMBDA wr :
            Ok(mark_sectors(wr.w, sector_in_block, to_write \div SECTOR), to_write)))

\* SparseExtent::write_block once the block is in the file
write_in_block(w, block_index, offset_in_block, data) ==
    LET offset_in_sector == offset_in_block % SECTOR
        to_write == Min(Len(data), header_block_size(w.h.header) - offset_in_block)
    IN  IF offset_in_sector # 0 \/ to_write < SECTOR
           THEN Try(read_block_data(w, block_index, rmw_sector_offset(offset_in_block), SECTOR),
                    LAMBDA rd : write_partial(rd, block_index, offset_in_block, data,
                                              Min(Len(data), SECTOR - offset_in_sector)))
        ELSE write_whole(w, block_index, offset_in_block \div SECTOR, data,
                         round_down(to_write, SECTOR))

\* SparseExtent::write_block; val is the number of bytes written
write_block(w, offset, data) ==
    LET block_size == header_block_size(w.h.header)
        block_index == offset \div block_size
    IN  Try(populate_block_bitmap(w, block_index), LAMBDA p :
            Try(IF ~ p.val THEN allocate_block(p.w, block_index) ELSE Ok(p.w, 0), LAMBDA a :
                write_in_block(a.w, block_index, offset % block_size, data)))

\* impl WriteAt for SparseExtent; val is the number of bytes written
RECURSIVE sparse_write_loop(_, _, _, _)
sparse_write_loop(w, offset, data, written) ==
    IF data = <<>> THEN Ok(w, written)
    ELSE Try(write_block(w, offset, data), LAMBDA r :
             IF r.val = 0 THEN Ok(r.w, written)
             ELSE sparse_write_loop(r.w, offset + r.val, SubSeq(data, r.val + 1, Len(data)),
                                    written + r.val))

SparseExtent_write_at(w, offset, data) == sparse_write_loop(w, offset, data, 0)

\* a trailing footer one sector past next_block_pos
footer_pos_past(h) == h.nbp + SECTOR

\* the offset of the trailing footer written by write_footer
footer_pos(h) == h.nbp

\* write_all_at of the serialised footer
write_footer_at(w, pos, footer) ==
    IF pos % SECTOR = 0
       THEN file_put_cells(w, pos, <<[t |-> "ftr", b |-> VhdFooter_to_bytes(footer)]>>)
    ELSE file_write_all_at(w, pos, FooterSeq(VhdFooter_to_bytes(footer)))

\* impl VhdImageExtent for SparseExtent: write_footer
SparseExtent_write_footer(w, footer) ==
    Try(write_footer_at(w, 0, footer), LAMBDA a : write_footer_at(a.w, footer_pos(a.w.h), footer))

\* impl Flush for SparseExtent (File::flush does nothing and succeeds)
SparseExtent_flush(w) == save_cached_bitmap(w)

\* SparseExtent::new
SparseExtent_new(path, mode, header, bat, bitmap_size, next_block_pos) ==
    [kind |-> "sparse", path |-> path, mode |-> mode, header |-> header, bat |-> bat,
     cbi |-> INVALID_CACHE_INDEX, cbm |-> <<>>, bmlen |-> bitmap_size, dirty |-> FALSE,
     nbp |-> next_block_pos, parent |-> NoImage]

\* the bitmap size computed by SparseExtent::open and SparseExtent::create
bitmap_size_of(header) == round_up(ceil(header_block_size(header), SECTOR * 8), SECTOR)

\* a SparseExtent::open that takes next_block_pos one sector too low
open_with_header_short(f, path, header) ==
    Bind(VhdBat_read(f, VhdFile_open_mode, header_table_offset(header),
                     header_max_bat_size(header)), LAMBDA br :
         IF ~ br.ok THEN br
         ELSE [ok |-> TRUE, err |-> "",
               val |-> SparseExtent_new(path, VhdFile_open_mode, header, br.val,
                                        bitmap_size_of(header), f.len - 2 * SECTOR)])

\* SparseExtent::open once the header was read; the result is [ok, err, val]
open_with_header(f, path, header) ==
    IF U64Lt(U64(f.len), header.table_offset)
       THEN [ok |-> FALSE, err |-> "InvalidSparseHeaderOffset"]
    ELSE Bind(VhdBat_read(f, VhdFile_open_mode, header_table_offset(header),
                          header_max_bat_size(header)), LAMBDA br :
              IF ~ br.ok THEN br
              ELSE [ok |-> TRUE, err |-> "",
                    val |-> SparseExtent_new(path, VhdFile_open_mode, header, br.val,
                                             bitmap_size_of(header), f.len - SECTOR)])

\* SparseExtent::open; the result is [ok, err, val], val the extent
SparseExtent_open(f, path, data_offset) ==
    IF ~ Fits31(data_offset) THEN [ok |-> FALSE, err |-> "UnexpectedEOD"]
    ELSE Bind(VhdHeader_read(f, VhdFile_open_mode, ToNat(data_offset)), LAMBDA hr :
              IF ~ hr.ok THEN hr ELSE open_with_header(f, path, hr.val))

\* VhdHeader::write_locator as SparseExtent::create calls it: one sector with
\* the UTF-16 path of locator slot i (0: absolute, 1: relative), written at the
\* slot's data_offset
write_locator(w, header, i, parent) ==
    file_put_cells(w, ToNat(header.prt_loc[i + 1].data_offset),
                   <<[t |-> "loc",
                      u |-> IF i = 0 THEN Utf16(parent.path) ELSE RelativeUnits(parent.path)]>>)

\* the size SparseExtent::create adds to next_block_pos for the locators
locators_size(parent) == IF parent.has THEN 2 * SECTOR ELSE 0

\* SparseExtent::create from the locators on
create_locators(w, header, footer, parent, bat_size) ==
    Bind(IF parent.has
            THEN Try(write_locator(w, header, 0, parent),
                     LAMBDA l0 : write_locator(l0.w, header, 1, parent))
         ELSE Ok(w, 0),
         LAMBDA l : IF ~ l.ok THEN Err(l.w, "panic")
                    ELSE Try(SparseExtent_write_footer(
                                 [l.w EXCEPT !.h.nbp = DEFAULT_TABLE_OFFSET + bat_size
                                                          + locators_size(parent)], footer),
                             LAMBDA wf : Ok(wf.w, wf.w.h)))

\* SparseExtent::create once the header was built; the result of the write
\* that VhdBat::write makes is dropped
create_with_header(fs, path, footer, parent, env, header) ==
    Bind(VhdBat_new(header_max_bat_size(header)), LAMBDA bat :
         Try(file_put_cells([fs |-> [fs EXCEPT ![path] = EmptyFile],
                             h |-> SparseExtent_new(path, VhdFile_create_mode, header, bat,
                                                    bitmap_size_of(header), 0),
                             dbg |-> env.dbg, junk |-> env.junk],
                            DEFAULT_HEADER_OFFSET,
                            <<[t |-> "hdr", part |-> 0, b |-> header_swap_bytes(header)],
                              [t |-> "hdr", part |-> 1, b |-> header_swap_bytes(header)]>>),
             LAMBDA wh :
                Bind(file_put_cells(wh.w, DEFAULT_TABLE_OFFSET, BatCells(bat)), LAMBDA wb :
                     create_locators(IF wb.ok THEN wb.w ELSE wh.w, header, footer, parent,
                                     round_up(Len(bat) * 4, SECTOR)))))

\* SparseExtent::create; parent is [has, path, footer]; the result is [w, ok, err, val]
SparseExtent_create(fs, path, footer, parent, env) ==
    create_with_header(fs, path, footer, parent, env,
                       with_relative_locator(
                           VhdHeader_new(footer_current_size(footer), DEFAULT_TABLE_OFFSET,
                                         DD_BLOCKSIZE_DEFAULT, parent), parent))

\* ------------------------------------------------------------------------
\* Fixed extent (fixed.rs)
\* ------------------------------------------------------------------------
\* debug_check!: the debug assertion of FixedExtent read_at / write_at
debug_check(w, offset, n) == w.dbg => (offset + n <= TheFile(w).len - SECTOR)

\* impl ReadAt for FixedExtent
FixedExtent_read_at(w, offset, n) ==
    IF ~ debug_check(w, offset, n) THEN Err(w, "panic")
    ELSE file_read_at(w, offset, n)

\* impl WriteAt for FixedExtent (File::write takes the whole buffer)
FixedExtent_write_at(w, offset, data) ==
    IF ~ debug_check(w, offset, Len(data)) THEN Err(w, "panic")
    ELSE IF ~ CanWrite(w.h.mode) THEN Err(w, "Io")
    ELSE Ok(SetFile(w, WriteBytes(TheFile(w), offset, data)), Len(data))

\* impl VhdImageExtent for FixedExtent: write_footer
FixedExtent_write_footer(w, footer) == write_footer_at(w, w.h.last_block_pos, footer)

\* FixedExtent::new
FixedExtent_new(path, mode, last_block_pos) ==
    [kind |-> "fixed", path |-> path, mode |-> mode, last_block_pos |-> last_block_pos]

\* FixedExtent::open
FixedExtent_open(f, path) == FixedExtent_new(path, VhdFile_open_mode, f.len - SECTOR)

\* FixedExtent::create from the zero filling on; pos is the end of the data
fixed_create_at(fs, path, footer, env, pos) ==
    Try(FixedExtent_write_footer([fs |-> [fs EXCEPT ![path] = [len |-> pos, sec |-> <<>>]],
                                  h |-> FixedExtent_new(path, VhdFile_create_mode, pos),
                                  dbg |-> env.dbg, junk |-> env.junk], footer),
        LAMBDA wf : Ok(wf.w, wf.w.h))

\* FixedExtent::create: the file is filled with zero chunks of 4096 bytes up
\* to the capacity, the footer follows
FixedExtent_create(fs, path, footer, env) ==
    fixed_create_at(fs, path, footer, env,
                    ((ToNat(Shr(footer_current_size(footer), 21)) * DD_BLOCKSIZE_DEFAULT)
                        \div 4096) * 4096)

\* ------------------------------------------------------------------------
\* VhdImage (image.rs).  An image is [kind |-> "image", footer, ext]; an image
\* world iw is [fs, img, dbg, junk]; results are [iw, ok, err, val].
\* ------------------------------------------------------------------------
IOk(iw, v) == [iw |-> iw, ok |-> TRUE, err |-> "", val |-> v]
IErr(iw, e) == [iw |-> iw, ok |-> FALSE, err |-> e, val |-> 0]

ExtWorld(iw) == [fs |-> iw.fs, h |-> iw.img.ext, dbg |-> iw.dbg, junk |-> iw.junk]

Lift(iw, r) ==
    [iw |-> [iw EXCEPT !.fs = r.w.fs, !.img.ext = r.w.h],
     ok |-> r.ok, err |-> r.err, val |-> r.val]

\* impl Disk for VhdImage: capacity
capacity(img) == footer_current_size(img.footer)

\* VhdImage::disk_type
disk_type(img) == footer_disk_type(img.footer)

\* ImageExtent::storage_size
storage_size(fs, img) == fs[img.ext.path].len

\* impl ReadAt for VhdImage
VhdImage_read_at(iw, offset, n) ==
    Bind(bound_to(capacity(iw.img), offset, n), LAMBDA data_len :
         IF data_len = -1 THEN IErr(iw, "ReadBeyondEOD")
         ELSE IF iw.img.ext.kind = "fixed"
                 THEN Lift(iw, FixedExtent_read_at(ExtWorld(iw), offset, data_len))
         ELSE Lift(iw, SparseExtent_read_at(ExtWorld(iw), offset, data_len)))

\* impl WriteAt for VhdImage
VhdImage_write_at(iw, offset, data) ==
    Bind(bound_to(capacity(iw.img), offset, Len(data)), LAMBDA data_len :
         IF data_len = -1 THEN IErr(iw, "WriteBeyondEOD")
         ELSE IF iw.img.ext.kind = "fixed"
                 THEN Lift(iw, FixedExtent_write_at(ExtWorld(iw), offset,
                                                    SubSeq(data, 1, data_len)))
         ELSE Lift(iw, SparseExtent_write_at(ExtWorld(iw), offset, SubSeq(data, 1, data_len))))

\* impl Flush for VhdImage (File::flush does nothing and succeeds)
VhdImage_flush(iw) ==
    IF iw.img.ext.kind = "fixed"
       THEN Lift(iw, Try(FixedExtent_write_footer(ExtWorld(iw), iw.img.footer),
                         LAMBDA wf : Ok(wf.w, 0)))
    ELSE Lift(iw, Try(SparseExtent_write_footer(ExtWorld(iw), iw.img.footer),
                      LAMBDA wf : SparseExtent_flush(wf.w)))

\* impl Drop for VhdImage: flush, the result ignored; then the extent's parent
\* is dropped.  The value is the file system left behind.
RECURSIVE VhdImage_drop(_)
VhdImage_drop(iw) ==
    Bind(VhdImage_flush(iw), LAMBDA r :
         IF r.iw.img.ext.kind = "sparse" /\ r.iw.img.ext.parent.kind # "none"
            THEN VhdImage_drop([r.iw EXCEPT !.img = r.iw.img.ext.parent])
         ELSE r.iw.fs)

\* check_max_size
check_max_size(size) == ~ U64Lt(MAX_VHD_SIZE, size)

\* the capacity create_fixed / create_dynamic compute from size_mb
create_size(size_mb) == Shl(ceil_blocks(Shl(size_mb, 20)), 21)

NewImage(footer, ext) == [kind |-> "image", footer |-> footer, ext |-> ext]
NoParent == [has |-> FALSE, path |-> "", footer |-> <<>>]
NewWorld(fs, env) == [fs |-> fs, img |-> NoImage, dbg |-> env.dbg, junk |-> env.junk]

\* the image a create function returns around the extent result r
created_image(fs, env, footer, r) ==
    IF ~ r.ok THEN IErr(NewWorld(r.w.fs, env), r.err)
    ELSE IOk([NewWorld(r.w.fs, env) EXCEPT !.img = NewImage(footer, r.val)], 0)

\* VhdImage::create_fixed; k numbers the footer's uuid and timestamp
VhdImage_create_fixed(fs, path, size_mb, k, env) ==
    Bind(create_size(size_mb), LAMBDA size :
         IF ~ check_max_size(size) THEN IErr(NewWorld(fs, env), "DiskSizeTooBig")
         ELSE Bind(VhdFooter_new(size, "Fixed", k), LAMBDA footer :
                   created_image(fs, env, footer, FixedExtent_create(fs, path, footer, env))))

\* VhdImage::create_dynamic
VhdImage_create_dynamic(fs, path, size_mb, k, env) ==
    Bind(create_size(size_mb), LAMBDA size :
         IF ~ check_max_size(size) THEN IErr(NewWorld(fs, env), "DiskSizeTooBig")
         ELSE Bind(VhdFooter_new(size, "Dynamic", k), LAMBDA footer :
                   created_image(fs, env, footer,
                                 SparseExtent_create(fs, path, footer, NoParent, env))))

\* VhdImage::open from the footer on
open_with_footer(f, path, fr) ==
    IF ~ fr.ok THEN fr
    ELSE IF footer_disk_type(fr.val) = "Fixed"
       THEN [ok |-> TRUE, err |-> "", val |-> NewImage(fr.val, FixedExtent_open(f, path))]
    ELSE Bind(SparseExtent_open(f, path, fr.val.data_offset), LAMBDA e :
              IF ~ e.ok THEN e ELSE [ok |-> TRUE, err |-> "", val |-> NewImage(fr.val, e.val)])

\* VhdImage::open; the result is [ok, err, val], val the image
VhdImage_open(fs, path) ==
    IF ~ Exists(fs[path]) THEN [ok |-> FALSE, err |-> "Io"]
    ELSE IF fs[path].len < SECTOR THEN [ok |-> FALSE, err |-> "FileTooSmall"]
    ELSE open_with_footer(fs[path], path,
                          VhdFooter_read(fs[path], VhdFile_open_mode, fs[path].len - SECTOR))

\* the image create_diff returns around the extent result r; the parent image
\* is dropped when SparseExtent::create returns
created_diff(env, footer, po, r) ==
    Bind(VhdImage_drop([NewWorld(r.w.fs, env) EXCEPT !.img = po.val]), LAMBDA g :
         IF ~ r.ok THEN IErr(NewWorld(g, env), r.err)
         ELSE IOk([NewWorld(g, env) EXCEPT !.img = NewImage(footer, r.val)], 0))

\* VhdImage::create_diff once the parent was opened
create_diff_of(fs, path, parent_path, k, env, po) ==
    IF ~ po.ok THEN IErr(NewWorld(fs, env), po.err)
    ELSE IF disk_type(po.val) = "Fixed"
       THEN IErr(NewWorld(VhdImage_drop([NewWorld(fs, env) EXCEPT !.img = po.val]), env),
                 "ParentNotDynamic")
    ELSE Bind(VhdFooter_new(capacity(po.val), "Diff", k), LAMBDA footer :
              created_diff(env, footer, po,
                           SparseExtent_create(fs, path, footer,
                                               [has |-> TRUE, path |-> parent_path,
                                                footer |-> po.val.footer], env)))

\* a create_diff that opens the parent without asking whether it exists
create_diff_unchecked(fs, path, parent_path, k, env) ==
    create_diff_of(fs, path, parent_path, k, env, VhdImage_open(fs, parent_path))

\* VhdImage::create_diff
VhdImage_create_diff(fs, path, parent_path, k, env) ==
    IF ~ Exists(fs[parent_path]) THEN IErr(NewWorld(fs, env), "ParentNotExist")
    ELSE create_diff_of(fs, path, parent_path, k, env, VhdImage_open(fs, parent_path))

\* ------------------------------------------------------------------------
\* Journal (journal.rs).  The journal file is [exists, len, hdr, ents]: the
\* serialised header and the entries in the order written, each with its
\* position, its serialised entry header and its payload.  A journal world jw
\* is [fs, jf, hd, img, dbg, junk] (hd the in-memory journal header); results
\* are [jw, ok, err].
\* ------------------------------------------------------------------------
NoJournalFile == [exists |-> FALSE, len |-> 0, hdr |-> <<>>, ents |-> <<>>]

VHD_JOURNAL_HEADER_COOKIE == <<118, 106, 111, 117, 114, 110, 97, 108>>
VHD_JOURNAL_ENTRY_COOKIE == <<170, 170, 33, 67, 52, 18, 170, 170>>

\* enum VhdJournalEntryType
EntryTypeCode(t) ==
    CASE t = "FooterP" -> 1 [] t = "FooterC" -> 2 [] t = "Header" -> 3
      [] t = "Locator" -> 4 [] t = "Bat" -> 5 [] t = "Data" -> 6

\* VhdJournalHeader::new
VhdJournalHeader_new ==
    [cookie |-> VHD_JOURNAL_HEADER_COOKIE, uuid |-> NilUuid, vhd_footer_offset |-> U64(0),
     journal_data_entries |-> U32(0), journal_metadata_entries |-> U32(0),
     journal_data_offset |-> U64(0), journal_metadata_offset |-> U64(0),
     journal_eof |-> U64(0)]

\* VhdJournalHeader::swap_bytes (the uuid is left as it is)
jheader_swap_bytes(h) ==
    [k \in DOMAIN h |-> IF k \in {"cookie", "uuid"} THEN h[k] ELSE swap_bytes(h[k])]

JournalEntryOrder == <<"cookie", "etype", "size", "offset", "checksum", "reserved">>

\* the entry with its checksum field filled in
entry_with_checksum(e) == [e EXCEPT !.checksum = Not32(SumFields(e, JournalEntryOrder))]

\* VhdJournalEntry::new
VhdJournalEntry_new(etype, size, offset) ==
    entry_with_checksum([cookie |-> VHD_JOURNAL_ENTRY_COOKIE,
                         etype |-> U32(EntryTypeCode(etype)), size |-> size,
                         offset |-> offset, checksum |-> U32(0), reserved |-> U32(0)])

\* VhdJournalEntry::swap_bytes
jentry_swap_bytes(e) ==
    [k \in DOMAIN e |-> IF k \in {"etype", "size", "offset", "checksum"} THEN swap_bytes(e[k])
                        ELSE e[k]]

JOk(jw) == [jw |-> jw, ok |-> TRUE, err |-> ""]
JErr(jw, e) == [jw |-> jw, ok |-> FALSE, err |-> e]

\* VhdJournal::journal_write_header
journal_write_header(jw) ==
    JOk([jw EXCEPT !.jf.hdr = jheader_swap_bytes(jw.hd),
                   !.jf.len = Max(jw.jf.len, JournalHeaderSize)])

\* a journal_update that advances journal_eof by the size field of the entry
journal_count_by_size(hd, entry, len) ==
    IF entry.etype = U32(EntryTypeCode("Data"))
       THEN [hd EXCEPT !.journal_data_offset =
                           IF hd.journal_data_entries = U32(0) THEN hd.journal_eof ELSE @,
                       !.journal_data_entries = U32(ToNat(@) + 1),
                       !.journal_eof = U64(ToNat(@) + JournalEntrySize + ToNat(entry.size))]
    ELSE [hd EXCEPT !.journal_metadata_offset =
                        IF hd.journal_metadata_entries = U32(0) THEN hd.journal_eof ELSE @,
                    !.journal_metadata_entries = U32(ToNat(@) + 1),
                    !.journal_eof = U64(ToNat(@) + JournalEntrySize + ToNat(entry.size))]

\* journal_update, the counters and offsets of the in-memory header
journal_count(hd, entry, len) ==
    IF entry.etype = U32(EntryTypeCode("Data"))
       THEN [hd EXCEPT !.journal_data_offset =
                           IF hd.journal_data_entries = U32(0) THEN hd.journal_eof ELSE @,
                       !.journal_data_entries = U32(ToNat(@) + 1),
                       !.journal_eof = U64(ToNat(@) + JournalEntrySize + len)]
    ELSE [hd EXCEPT !.journal_metadata_offset =
                        IF hd.journal_metadata_entries = U32(0) THEN hd.journal_eof ELSE @,
                    !.journal_metadata_entries = U32(ToNat(@) + 1),
                    !.journal_eof = U64(ToNat(@) + JournalEntrySize + len)]

\* VhdJournal::journal_update; data is the payload, data.len its length
journal_update(jw, pos, entry, data) ==
    journal_write_header(
        [jw EXCEPT !.jf.ents = Append(@, [pos |-> pos, e |-> jentry_swap_bytes(entry),
                                          data |-> data]),
                   !.jf.len = Max(@, pos + JournalEntrySize + data.len),
                   !.hd = journal_count(@, entry, data.len)])

\* VhdJournal::journal_add_footer: both payloads are the in-memory footer
journal_add_footer(jw) ==
    Bind(journal_update(jw, ToNat(jw.hd.journal_eof),
                        VhdJournalEntry_new("FooterP", U32(FooterSize), jw.hd.vhd_footer_offset),
                        [t |-> "footer", b |-> jw.img.footer, len |-> FooterSize]),
         LAMBDA a :
            IF ~ a.ok \/ disk_type(jw.img) = "Fixed" THEN a
            ELSE journal_update(a.jw, ToNat(a.jw.hd.journal_eof),
                                VhdJournalEntry_new("FooterC", U32(FooterSize), U64(0)),
                                [t |-> "footer", b |-> jw.img.footer, len |-> FooterSize]))

\* VhdJournal::journal_add_header: the payload is the in-memory header
journal_add_header(jw) ==
    journal_update(jw, ToNat(jw.hd.journal_eof),
                   VhdJournalEntry_new("Header", U32(HeaderSize), jw.img.footer.data_offset),
                   [t |-> "header", b |-> jw.img.ext.header, len |-> HeaderSize])

\* VhdJournal::journal_add_locators, slots i..7; parent_locator_data unwraps
\* its read of the image file
RECURSIVE journal_add_locators(_, _)
journal_add_locator(jw, i, locator) ==
    IF locator.code = PLAT_CODE_NONE THEN journal_add_locators(jw, i + 1)
    ELSE Bind(read_exact_at(jw.fs[jw.img.ext.path], jw.img.ext.mode,
                            ToNat(locator.data_offset), ToNat(locator.data_space)), LAMBDA rd :
              IF ~ rd.ok THEN JErr(jw, "panic")
              ELSE Try(journal_update(jw, ToNat(jw.hd.journal_eof),
                                      VhdJournalEntry_new("Locator", locator.data_space,
                                                          locator.data_offset),
                                      [t |-> "bytes", b |-> Trim(rd.val), len |-> Len(rd.val)]),
                       LAMBDA u : journal_add_locators(u.jw, i + 1)))

journal_add_locators(jw, i) ==
    IF i > 7 THEN JOk(jw) ELSE journal_add_locator(jw, i, jw.img.ext.header.prt_loc[i + 1])

\* VhdBat::bat_data: the table of entries
bat_data(bat) == bat

\* VhdJournal::journal_add_bat
journal_add_bat(jw) ==
    journal_update(jw, ToNat(jw.hd.journal_eof),
                   VhdJournalEntry_new(
                       "Bat", U32(round_up(header_max_bat_size(jw.img.ext.header) * 4, SECTOR)),
                       jw.img.ext.header.table_offset),
                   [t |-> "bat", b |-> bat_data(jw.img.ext.bat),
                    len |-> Len(bat_data(jw.img.ext.bat)) * 4])

\* VhdJournal::journal_add_metadata
journal_add_metadata(jw) ==
    Bind(journal_add_footer(jw), LAMBDA f :
         IF ~ f.ok \/ disk_type(jw.img) = "Fixed" THEN f
         ELSE Try(journal_add_header(f.jw), LAMBDA h :
                  Try(journal_add_locators(h.jw, 0), LAMBDA l : journal_add_bat(l.jw))))

\* VhdJournal::create
VhdJournal_create(fs, img, env) ==
    Try(journal_write_header(
            [fs |-> fs, jf |-> [NoJournalFile EXCEPT !.exists = TRUE],
             hd |-> [VhdJournalHeader_new EXCEPT
                        !.uuid = img.footer.uuid,
                        !.vhd_footer_offset = U64(storage_size(fs, img) - FooterSize),
                        !.journal_eof = U64(JournalHeaderSize)],
             img |-> img, dbg |-> env.dbg, junk |-> env.junk]),
        LAMBDA wh : journal_add_metadata(wh.jw))

\* the journal world after the extent operation that left the extent world w
JWith(jw, w) == [jw EXCEPT !.fs = w.fs, !.img.ext = w.h]

\* the extent world of a journal's image
JExt(jw) == [fs |-> jw.fs, h |-> jw.img.ext, dbg |-> jw.dbg, junk |-> jw.junk]

\* the bitmap entry of add_block, pp the result of populate_block_bitmap
add_block_bitmap(jw, bp, pp) ==
    IF ~ bp.ok THEN JErr(jw, "panic")
    ELSE IF ~ pp.ok THEN JErr(JWith(jw, pp.w), "panic")
    ELSE journal_update(JWith(jw, pp.w), ToNat(jw.hd.journal_eof),
                        VhdJournalEntry_new("Data", U32(pp.w.h.bmlen), U64(bp.val)),
                        [t |-> "bitmap", b |-> pp.w.h.cbm, len |-> pp.w.h.bmlen])

\* VhdImage::sparse_block_bitmap followed by the bitmap entry of add_block
add_block_metadata(jw, bat_block_index) ==
    add_block_bitmap(jw, calc_bitmap_pos(JExt(jw), bat_block_index),
                     populate_block_bitmap(JExt(jw), bat_block_index))

\* the data entry of add_block, rb the result of read_block
add_block_entry(jw, sp, rb) ==
    IF ~ rb.ok THEN JErr(JWith(jw, rb.w), rb.err)
    ELSE journal_update(JWith(jw, rb.w), ToNat(jw.hd.journal_eof),
                        VhdJournalEntry_new("Data", jw.img.ext.header.block_size, U64(sp.val)),
                        [t |-> "bytes", b |-> <<>>, len |-> 0])

\* VhdImage::sparse_block_data on an empty buffer followed by the data entry
\* of add_block
add_block_data(jw, bat_block_index) ==
    Bind(calc_sector_pos(JExt(jw), bat_block_index, 0), LAMBDA sp :
         IF ~ sp.ok THEN JErr(jw, sp.err)
         ELSE add_block_entry(jw, sp, read_block(JExt(jw), sp.val, 0)))

\* the tests add_block makes on its mode argument
wants_metadata(mode) == mode \in {0, VHD_JOURNAL_METADATA}    \* (mode | METADATA) == METADATA
wants_data(mode) == mode \in {0, VHD_JOURNAL_DATA}            \* (mode | DATA) == DATA

\* an add_block that appends an empty Data entry whatever the image type is
add_block_any_type(jw, bat_block_index, mode) ==
    journal_update(jw, ToNat(jw.hd.journal_eof), VhdJournalEntry_new("Data", U32(0), U64(0)),
                   [t |-> "bytes", b |-> <<>>, len |-> 0])

\* VhdJournal::add_block
VhdJournal_add_block(jw, bat_block_index, mode) ==
    IF disk_type(jw.img) = "Fixed" THEN JErr(jw, "NeedDyncOrDiffImage")
    ELSE Try(IF wants_metadata(mode) THEN add_block_metadata(jw, bat_block_index) ELSE JOk(jw),
             LAMBDA m : IF wants_data(mode) THEN add_block_data(m.jw, bat_block_index) ELSE m)

\* VhdJournal::commit: todo!("commit")
VhdJournal_commit(jw) == JErr(jw, "panic")

\* VhdJournal::revert: todo!("revert")
VhdJournal_revert(jw) == JErr(jw, "panic")

\* ------------------------------------------------------------------------
\* The state machine: one process driving the public operations on the files
\* of a directory.  A panic ends the process: the values it holds are dropped
\* while it unwinds and no operation follows.
\*   fs      path -> file (NoFile when the path does not exist)
\*   jfile   the journal file
\*   img     the image the caller holds (NoImage when none)
\*   jrn     the journal the caller holds (it owns its image), NoJournal when none
\*   res     the last operation: its arguments and what it returned
\*   nid     the number of the next footer created (uuid and timestamp)
\*   dbg     whether the build has debug assertions
\*   created path -> what the create call that made the file reported
\*   wlog    the last write_at issued below the capacity of the dynamic image
\*           at LogPath since it was created, and whether a flush succeeded
\*           after it
\*   calc    the last call of a function on values (BAT, geometry, codecs)
\*           made outside an image: its arguments and its result
\* ------------------------------------------------------------------------
VARIABLES fs, jfile, img, jrn, res, nid, dbg, created, wlog, calc

vars == <<fs, jfile, img, jrn, res, nid, dbg, created, wlog, calc>>

Paths == {"a.vhd", "b.vhd", "c.vhd", "d.vhd"}
CreatePaths == {"a.vhd"}
DiffPaths == {"d.vhd"}
ParentPaths == {"a.vhd", "b.vhd", "c.vhd"}
LogPath == "a.vhd"

MiB == 1048576

\* size_mb arguments: 2, 3, 2^44 + 2 (the shift wraps), 2041 * 1024 (too big)
SizeMbs == {U64(2), U64(3), <<2, 0, 0, 0, 0, 16, 0, 0>>, U64(2041 * 1024)}

Fill(n, b) == [i \in 1..n |-> b]

\* write_at requests <<offset, data>>, pairwise disjoint
WriteReqs == << <<0, Fill(SECTOR, 170)>>,
                <<2 * MiB + 700, <<1, 2, 3>>>>,
                <<2 * MiB - 1, <<7, 9>>>> >>

\* read_at requests <<offset, length>>
ReadReqs == { <<WriteReqs[i][1], Len(WriteReqs[i][2])>> : i \in DOMAIN WriteReqs }
               \cup { <<2 * MiB, 2 * SECTOR>>, <<4 * MiB, 1>> }

NoJournal == [kind |-> "none"]
NoInfo == [type |-> "none"]
NoLog == [last |-> 0, flushed |-> FALSE]
NoCalc == [op |-> "none", kind |-> "", ok |-> TRUE, err |-> "", val |-> <<>>, bat |-> <<>>,
           before |-> <<>>, index |-> 0, id |-> <<>>, size |-> <<>>, type |-> "",
           parent |-> <<>>, two |-> FALSE, rec |-> <<>>]

NoRes == [op |-> "init", path |-> "", ok |-> TRUE, err |-> "", val |-> <<>>,
          off |-> 0, n |-> 0, data |-> <<>>, size_mb |-> <<>>, type |-> "none", cap |-> <<>>,
          mode |-> "", rep |-> FALSE, parent |-> "", len0 |-> 0, len1 |-> 0, nbp0 |-> 0, nbp1 |-> 0]

Info(i, parent) ==
    [type |-> disk_type(i), cap |-> capacity(i), uuid |-> i.footer.uuid, parent |-> parent]

Env(junk) == [dbg |-> dbg, junk |-> junk]
World(junk) == [fs |-> fs, img |-> img, dbg |-> dbg, junk |-> junk]

\* an image made by another VHD writer: dynamic, 4 MiB, block 1 allocated at
\* sector 4 with its first sector written (512 bytes 0x55)
ForeignFooter == VhdFooter_new(U64(4 * MiB), "Dynamic", 0)
ForeignHeader == VhdHeader_new(U64(4 * MiB), DEFAULT_TABLE_OFFSET, DD_BLOCKSIZE_DEFAULT, NoParent)
ForeignBlockSector == (DEFAULT_TABLE_OFFSET + SECTOR) \div SECTOR
ForeignImageFile ==
    LET ftr == [t |-> "ftr", b |-> VhdFooter_to_bytes(ForeignFooter)]
        hdr(k) == [t |-> "hdr", part |-> k, b |-> header_swap_bytes(ForeignHeader)]
        bat == <<DD_BLOCK_UNUSED, U32(ForeignBlockSector)>>
        bitmap == [t |-> "raw", b |-> (0 :> 128)]
        data == [t |-> "raw", b |-> [k \in 0..(SECTOR - 1) |-> 85]]
        end == ForeignBlockSector + 1 + (DD_BLOCKSIZE_DEFAULT \div SECTOR)
    IN  PutCell(PutCells(PutCells(EmptyFile, 0, <<ftr, hdr(0), hdr(1)>> \o BatCells(bat)),
                         ForeignBlockSector, <<bitmap, data>>),
                end, ftr)

\* a fixed image of 2 MiB made earlier: zeros, then the footer
ForeignFixedFooter == VhdFooter_new(U64(2 * MiB), "Fixed", 0)
ForeignFixedFile ==
    PutCell([len |-> 2 * MiB, sec |-> <<>>], (2 * MiB) \div SECTOR,
            [t |-> "ftr", b |-> VhdFooter_to_bytes(ForeignFixedFooter)])

Init ==
    /\ fs = [p \in Paths |-> IF p = "c.vhd" THEN ForeignImageFile
                             ELSE IF p = "b.vhd" THEN ForeignFixedFile ELSE NoFile]
    /\ jfile = NoJournalFile
    /\ img = NoImage
    /\ jrn = NoJournal
    /\ res = NoRes
    /\ nid = 1
    /\ dbg \in BOOLEAN
    /\ created = [p \in Paths |-> NoInfo]
    /\ wlog = NoLog
    /\ calc = NoCalc

\* the process runs: no operation has panicked
Alive == res.err # "panic"
Idle == Alive /\ img = NoImage /\ jrn = NoJournal

\* what a create call leaves in the variables
AfterCreate(op, path, size_mb, parent, r) ==
    /\ fs' = r.iw.fs
    /\ img' = IF r.ok THEN r.iw.img ELSE NoImage
    /\ nid' = IF r.ok THEN nid + 1 ELSE nid
    /\ res' = [NoRes EXCEPT !.op = op, !.path = path, !.ok = r.ok, !.err = r.err,
                            !.size_mb = size_mb, !.parent = parent,
                            !.type = IF r.ok THEN disk_type(r.iw.img) ELSE "none",
                            !.cap = IF r.ok THEN capacity(r.iw.img) ELSE <<>>,
                            !.len0 = fs[path].len, !.len1 = r.iw.fs[path].len,
                            !.nbp1 = IF r.ok /\ r.iw.img.ext.kind = "sparse"
                                        THEN r.iw.img.ext.nbp ELSE 0]
    /\ created' = IF r.ok THEN [created EXCEPT ![path] = Info(r.iw.img, parent)] ELSE created
    /\ wlog' = IF r.ok /\ path = LogPath THEN NoLog ELSE wlog
    /\ UNCHANGED <<jfile, jrn, dbg, calc>>

\* the sizes the model keeps in files: a size that passes check_max_size is small
Creatable(size_mb) ==
    check_max_size(create_size(size_mb)) => U64Lt(create_size(size_mb), U64(8 * MiB))

CreateFixed(path, size_mb) ==
    /\ Idle /\ nid <= MaxCreates /\ Creatable(size_mb)
    /\ AfterCreate("create_fixed", path, size_mb, "",
                   VhdImage_create_fixed(fs, path, size_mb, nid, Env(0)))

CreateDynamic(path, size_mb) ==
    /\ Idle /\ nid <= MaxCreates /\ Creatable(size_mb)
    /\ AfterCreate("create_dynamic", path, size_mb, "",
                   VhdImage_create_dynamic(fs, path, size_mb, nid, Env(0)))

CreateDiff(path, parent) ==
    /\ Idle /\ nid <= MaxCreates
    /\ AfterCreate("create_diff", path, <<>>, parent,
                   VhdImage_create_diff(fs, path, parent, nid, Env(0)))

AfterOpen(path, r) ==
    /\ img' = IF r.ok THEN r.val ELSE NoImage
    /\ res' = [NoRes EXCEPT !.op = "open", !.path = path, !.ok = r.ok, !.err = r.err,
                            !.val = IF r.ok THEN Info(r.val, "") ELSE NoInfo,
                            !.type = IF r.ok THEN disk_type(r.val) ELSE "none",
                            !.cap = IF r.ok THEN capacity(r.val) ELSE <<>>]
    /\ UNCHANGED <<fs, jfile, jrn, nid, dbg, created, wlog, calc>>

Open(path) == Idle /\ AfterOpen(path, VhdImage_open(fs, path))

\* the flush of the logged image records that the writes before it were flushed
Flushed(path, ok) ==
    IF ok /\ path = LogPath /\ wlog.last # 0 THEN [wlog EXCEPT !.flushed = TRUE] ELSE wlog

Nbp(i) == IF i # NoImage /\ i.ext.kind = "sparse" THEN i.ext.nbp ELSE 0

\* what an operation on the held image that returned r leaves in the
\* variables; left is the file system after it (a panic unwinds through the
\* caller, which drops the image)
AfterOp(op, r, left, off, n, data, val, log) ==
    /\ fs' = left
    /\ img' = IF r.err = "panic" THEN NoImage ELSE r.iw.img
    /\ res' = [NoRes EXCEPT !.op = op, !.path = img.ext.path, !.ok = r.ok, !.err = r.err,
                            !.type = disk_type(img), !.cap = capacity(img),
                            !.mode = img.ext.mode,
                            !.off = off, !.n = n, !.data = data, !.val = val,
                            !.rep = op = "write_at" /\ res.op = op /\ res.off = off
                                       /\ res.data = data,
                            !.len0 = storage_size(fs, img), !.len1 = left[img.ext.path].len,
                            !.nbp0 = Nbp(img), !.nbp1 = Nbp(r.iw.img)]
    /\ wlog' = log
    /\ UNCHANGED <<jfile, jrn, nid, dbg, created, calc>>

Left(r) == IF r.err = "panic" THEN VhdImage_drop(r.iw) ELSE r.iw.fs

FlushDone(r) == AfterOp("flush", r, Left(r), 0, 0, <<>>, <<>>, Flushed(img.ext.path, r.ok))

Flush == Alive /\ img # NoImage /\ FlushDone(VhdImage_flush(World(0)))

\* the caller drops the image
CloseDone(r, left) ==
    /\ fs' = left
    /\ img' = NoImage
    /\ res' = [NoRes EXCEPT !.op = "close", !.path = img.ext.path,
                            !.type = disk_type(img), !.cap = capacity(img),
                            !.mode = img.ext.mode,
                            !.len0 = storage_size(fs, img), !.len1 = left[img.ext.path].len]
    /\ wlog' = Flushed(img.ext.path, r.ok)
    /\ UNCHANGED <<jfile, jrn, nid, dbg, created, calc>>

Close == Alive /\ img # NoImage /\ CloseDone(VhdImage_flush(World(0)), VhdImage_drop(World(0)))

ReadDone(req, r) ==
    AfterOp("read_at", r, Left(r), req[1], req[2], <<>>, IF r.ok THEN r.val ELSE <<>>, wlog)

ReadAt(req) == Alive /\ img # NoImage /\ ReadDone(req, VhdImage_read_at(World(0), req[1], req[2]))

InsideCapacity(cap, offset, n) == Fits31(cap) /\ offset + n <= ToNat(cap)

WriteDone(k, r) ==
    AfterOp("write_at", r, Left(r), WriteReqs[k][1], Len(WriteReqs[k][2]), WriteReqs[k][2],
            IF r.ok THEN r.val ELSE 0,
            IF /\ img.ext.path = LogPath /\ disk_type(img) = "Dynamic"
               /\ WriteReqs[k][1] < ToNat(capacity(img))
               THEN [last |-> k, flushed |-> FALSE]
            ELSE wlog)

WriteAt(k, junk) ==
    /\ Alive /\ img # NoImage
    /\ WriteDone(k, VhdImage_write_at(World(junk), WriteReqs[k][1], WriteReqs[k][2]))

JWorld(junk) ==
    [fs |-> fs, jf |-> jfile, hd |-> jrn.hd, img |-> jrn.img, dbg |-> dbg, junk |-> junk]

\* the file system after the journal (and the image it owns) is dropped
JDropped(jw) == VhdImage_drop([fs |-> jw.fs, img |-> jw.img, dbg |-> jw.dbg, junk |-> jw.junk])

JRes(op, i, r) ==
    [NoRes EXCEPT !.op = op, !.path = i.ext.path, !.ok = r.ok, !.err = r.err,
                  !.type = disk_type(i), !.cap = capacity(i), !.mode = i.ext.mode,
                  !.len0 = jfile.len, !.len1 = r.jw.jf.len]

\* VhdJournal::create takes the image; when it fails the image is dropped
JournalCreated(r) ==
    /\ jfile' = r.jw.jf
    /\ jrn' = IF r.ok THEN [kind |-> "journal", hd |-> r.jw.hd, img |-> r.jw.img,
                            orig |-> fs[img.ext.path], adds |-> 0]
              ELSE NoJournal
    /\ fs' = IF r.ok THEN r.jw.fs ELSE JDropped(r.jw)
    /\ res' = JRes("journal_create", img, r)
    /\ img' = NoImage
    /\ UNCHANGED <<nid, dbg, created, wlog, calc>>

JournalCreate ==
    /\ Alive /\ img # NoImage /\ jrn = NoJournal
    /\ JournalCreated(VhdJournal_create(fs, img, Env(0)))

BlockAdded(bat_block_index, mode, r) ==
    /\ jfile' = r.jw.jf
    /\ jrn' = IF r.err = "panic" THEN NoJournal
              ELSE [jrn EXCEPT !.hd = r.jw.hd, !.img = r.jw.img, !.adds = @ + 1]
    /\ fs' = IF r.err = "panic" THEN JDropped(r.jw) ELSE r.jw.fs
    /\ res' = [JRes("add_block", jrn.img, r) EXCEPT !.off = bat_block_index, !.n = mode]
    /\ UNCHANGED <<img, nid, dbg, created, wlog, calc>>

AddBlock(bat_block_index, mode) ==
    /\ Alive /\ jrn # NoJournal
    /\ jrn.adds < MaxAddBlocks
    /\ BlockAdded(bat_block_index, mode, VhdJournal_add_block(JWorld(0), bat_block_index, mode))

\* commit and revert panic: the journal is dropped, its file stays; val tells
\* whether the image file is what it was when the journal was created
Finish(op, r, left) ==
    /\ jfile' = r.jw.jf
    /\ jrn' = NoJournal
    /\ fs' = left
    /\ res' = [JRes(op, jrn.img, r) EXCEPT !.val = (left[jrn.img.ext.path] = jrn.orig)]
    /\ UNCHANGED <<img, nid, dbg, created, wlog, calc>>

Commit ==
    /\ Alive /\ jrn # NoJournal
    /\ Finish("commit", VhdJournal_commit(JWorld(0)), JDropped(VhdJournal_commit(JWorld(0)).jw))

Revert ==
    /\ Alive /\ jrn # NoJournal
    /\ Finish("revert", VhdJournal_revert(JWorld(0)), JDropped(VhdJournal_revert(JWorld(0)).jw))

Next ==
    \/ \E p \in CreatePaths, m \in SizeMbs : CreateFixed(p, m)
    \/ \E p \in CreatePaths, m \in SizeMbs : CreateDynamic(p, m)
    \/ \E p \in DiffPaths, q \in ParentPaths : CreateDiff(p, q)
    \/ \E p \in Paths : Open(p)
    \/ Close
    \/ Flush
    \/ \E q \in ReadReqs : ReadAt(q)
    \/ \E k \in DOMAIN WriteReqs, junk \in {0, 255} : WriteAt(k, junk)
    \/ JournalCreate
    \/ \E i \in {0, 1}, mode \in 0..3 : AddBlock(i, mode)
    \/ Commit
    \/ Revert

Spec == Init /\ [][Next]_vars

\* ------------------------------------------------------------------------
\* The functions on values, called on their own: the block allocation table,
\* the geometry of a capacity, the footer and sparse header codecs.  The
\* arguments are drawn in the initial state; calc holds them, the last call
\* and what it returned.  No image file is involved.
\* ------------------------------------------------------------------------
MaxBatLen == 3

\* BAT entries: unused, and two sector numbers
BatValues == {DD_BLOCK_UNUSED, U32(4), U32(4101)}

\* the tables VhdBat::new and VhdBat::read can return
Bats == UNION {[1..n -> BatValues] : n \in 0..MaxBatLen}

\* capacities in bytes: 0, 2 MiB, 10 MiB, 1 GiB, 4 GiB - 512, 4 GiB,
\* 4 GiB + 10 MiB, 32 GiB, 65535 * 16 * 255 * 512, 128 GiB, 2040 GiB
GeoCapacities ==
    {U64(0), U64(2 * MiB), U64(10 * MiB), U64(1024 * MiB),
     <<0, 254, 255, 255, 0, 0, 0, 0>>, <<0, 0, 0, 0, 1, 0, 0, 0>>,
     <<0, 0, 160, 0, 1, 0, 0, 0>>, <<0, 0, 0, 0, 8, 0, 0, 0>>,
     MaxChsBytes, <<0, 0, 0, 0, 32, 0, 0, 0>>, MAX_VHD_SIZE}

\* the capacities footers and sparse headers are built for: 2 MiB, 10 MiB,
\* 4 GiB, 2040 GiB
CodecSizes == {U64(2 * MiB), U64(10 * MiB), <<0, 0, 0, 0, 1, 0, 0, 0>>, MAX_VHD_SIZE}

\* the parents a sparse header is built for: none, and the image in c.vhd
CodecParents == {NoParent, [has |-> TRUE, path |-> "c.vhd", footer |-> ForeignFooter]}

\* the arguments drawn: a table for the BAT calls, a capacity for the
\* geometry, the arguments of VhdFooter::new and of VhdHeader::new
Inputs ==
    {[NoCalc EXCEPT !.kind = "bat", !.bat = b] : b \in Bats}
    \cup {[NoCalc EXCEPT !.kind = "geometry", !.size = c] : c \in GeoCapacities}
    \cup {[NoCalc EXCEPT !.kind = "footer", !.size = c, !.type = t, !.index = k] :
              c \in CodecSizes, t \in {"Fixed", "Dynamic", "Diff"}, k \in {1, 2}}
    \cup {[NoCalc EXCEPT !.kind = "header", !.size = c, !.parent = q, !.two = two] :
              c \in CodecSizes, q \in CodecParents, two \in BOOLEAN}

PureInit ==
    /\ fs = [p \in Paths |-> NoFile]
    /\ jfile = NoJournalFile
    /\ img = NoImage
    /\ jrn = NoJournal
    /\ res = NoRes
    /\ nid = 1
    /\ dbg = FALSE
    /\ created = [p \in Paths |-> NoInfo]
    /\ wlog = NoLog
    /\ calc \in Inputs

\* what a call leaves in calc
Called(c) ==
    /\ calc' = c
    /\ UNCHANGED <<fs, jfile, img, jrn, res, nid, dbg, created, wlog>>

\* a call of VhdBat::block_id on the table
BlockId(index) ==
    /\ calc.kind = "bat" /\ calc.err # "panic"
    /\ Called([calc EXCEPT !.op = "block_id", !.before = calc.bat, !.index = index,
                            !.id = <<>>,
                            !.ok = block_id(calc.bat, index).ok,
                            !.err = block_id(calc.bat, index).err,
                            !.val = IF block_id(calc.bat, index).ok
                                       THEN block_id(calc.bat, index).val ELSE <<>>])

\* a call of VhdBat::set_block_id on the table
SetBlockId(index, id) ==
    /\ calc.kind = "bat" /\ calc.err # "panic"
    /\ Called([calc EXCEPT !.op = "set_block_id",
                            !.bat = set_block_id(calc.bat, index, id).bat,
                            !.before = calc.bat, !.index = index, !.id = id,
                            !.ok = set_block_id(calc.bat, index, id).ok,
                            !.err = set_block_id(calc.bat, index, id).err,
                            !.val = <<>>])

\* a call of Geometry::with_vhd_capacity
GeometryOf ==
    /\ calc.kind = "geometry" /\ calc.op = "none"
    /\ Called([calc EXCEPT !.op = "geometry", !.val = with_vhd_capacity(calc.size)])

\* a file that holds the bytes q from its start
FileOf(q) == WriteBytes(EmptyFile, 0, q)

\* the footer built and what VhdFooter::read returns for its bytes on disk
FooterRead(f) ==
    [calc EXCEPT !.op = "footer", !.rec = f,
                 !.val = VhdFooter_read(FileOf(FooterSeq(VhdFooter_to_bytes(f))), "rw", 0)]

\* VhdFooter::new, then to_bytes written to a file and VhdFooter::read of it
FooterRoundTrip ==
    /\ calc.kind = "footer" /\ calc.op = "none"
    /\ Called(FooterRead(VhdFooter_new(calc.size, calc.type, calc.index)))

\* the header built and what VhdHeader::read returns for its bytes on disk
HeaderRead(h) ==
    [calc EXCEPT !.op = "header", !.rec = h,
                 !.val = VhdHeader_read(FileOf(HeaderSeq(header_swap_bytes(h))), "rw", 0)]

\* VhdHeader::new (with one locator, or in the form SparseExtent::create calls,
\* with two), then VhdHeader::write to a file and VhdHeader::read of it
HeaderRoundTrip ==
    /\ calc.kind = "header" /\ calc.op = "none"
    /\ Called(HeaderRead(IF calc.two
                            THEN with_relative_locator(
                                     VhdHeader_new(calc.size, DEFAULT_TABLE_OFFSET,
                                                   DD_BLOCKSIZE_DEFAULT, calc.parent),
                                     calc.parent)
                         ELSE VhdHeader_new(calc.size, DEFAULT_TABLE_OFFSET,
                                            DD_BLOCKSIZE_DEFAULT, calc.parent)))

PureNext ==
    \/ \E i \in 0..(MaxBatLen + 1) : BlockId(i)
    \/ \E i \in 0..(MaxBatLen + 1), id \in BatValues : SetBlockId(i, id)
    \/ GeometryOf
    \/ FooterRoundTrip
    \/ HeaderRoundTrip

PureSpec == PureInit /\ [][PureNext]_vars

\* ------------------------------------------------------------------------
\* Properties.  res describes the last operation; the properties read it
\* together with the variables the operation left behind.
\* ------------------------------------------------------------------------
Sparse(type) == type \in {"Dynamic", "Diff"}
LastIO == res.op \in {"read_at", "write_at"}

\* the request lies inside the capacity of the image it was made on
Inside == InsideCapacity(res.cap, res.off, res.n)

\* the number of bytes the last read_at or write_at transferred
Transferred == IF res.op = "read_at" THEN Len(res.val) ELSE res.val

\* the byte at position pos of the image is covered by a write_at request
Requested(pos) ==
    \E k \in DOMAIN WriteReqs : WriteReqs[k][1] <= pos /\ pos < WriteReqs[k][1] + Len(WriteReqs[k][2])

\* the byte at position pos of the image in c.vhd
ParentPattern(pos) == IF 2 * MiB <= pos /\ pos < 2 * MiB + SECTOR THEN 85 ELSE 0

\* C1: on a dynamic or differencing image a write_at that lies inside the
\* capacity succeeds, and a read_at of the same range that follows it returns
\* the bytes written.
C1_WriteThenRead ==
    [][(res.op = "write_at" /\ Sparse(res.type) /\ Inside)
          => /\ res.ok
             /\ (res'.op = "read_at" /\ res'.off = res.off /\ res'.n = res.n)
                   => (res'.ok /\ res'.val = res.data)]_vars

\* C2: on a dynamic image as create_dynamic left it, with no write_at made
\* inside its capacity, a read_at inside the capacity succeeds, returns zero
\* bytes only and allocates nothing (the file and next_block_pos stay).
C2_FreshReadsZero ==
    (/\ res.op = "read_at" /\ res.path = LogPath /\ res.type = "Dynamic"
     /\ res.mode = VhdFile_create_mode /\ wlog.last = 0 /\ Inside)
        => /\ res.ok /\ res.val = Zeros(res.n)
           /\ res.len1 = res.len0 /\ res.nbp1 = res.nbp0

\* C3: once a write_at on the dynamic image was followed by a flush and the
\* file was opened again, a read_at of the written range returns the bytes
\* written, and the bytes no write_at request covers read as zero.
C3_FlushedWriteReadsBack ==
    (/\ res.op = "read_at" /\ res.path = LogPath /\ res.type = "Dynamic"
     /\ res.mode = VhdFile_open_mode /\ wlog.last # 0 /\ wlog.flushed /\ Inside)
        => /\ res.ok
           /\ (res.off = WriteReqs[wlog.last][1] /\ res.n = Len(WriteReqs[wlog.last][2]))
                 => res.val = WriteReqs[wlog.last][2]
           /\ \A i \in 1..res.n : ~ Requested(res.off + i - 1) => res.val[i] = 0

\* C4: on a differencing image whose parent is c.vhd a read_at inside the
\* capacity returns the parent's bytes wherever no write_at request covers
\* them, a write_at inside the capacity succeeds, and c.vhd stays as it was.
C4_DiffReadsParent ==
    (LastIO /\ res.type = "Diff" /\ created[res.path].parent = "c.vhd" /\ Inside)
        => /\ res.ok
           /\ res.op = "read_at"
                 => \A i \in 1..res.n :
                        ~ Requested(res.off + i - 1) => res.val[i] = ParentPattern(res.off + i - 1)
           /\ fs["c.vhd"] = ForeignImageFile

\* C5: revert returns, leaves the image file as it was when the journal was
\* created, and removes the journal file.
C5_RevertRestores ==
    res.op = "revert" => (res.ok /\ res.val = TRUE /\ ~ jfile.exists)

\* C6: a read_at or write_at at an offset at or past the capacity fails with
\* ReadBeyondEOD or WriteBeyondEOD and leaves the file as it was; at an
\* offset below the capacity it transfers min(len, capacity - offset) bytes.
C6_BoundedByCapacity ==
    LastIO =>
        IF res.off >= ToNat(res.cap)
           THEN /\ ~ res.ok /\ res.len1 = res.len0
                /\ res.err = IF res.op = "read_at" THEN "ReadBeyondEOD" ELSE "WriteBeyondEOD"
        ELSE res.ok /\ Transferred = Min(res.n, ToNat(res.cap) - res.off)

PopulatedLocators(header) ==
    Cardinality({i \in 1..8 : header.prt_loc[i].code # PLAT_CODE_NONE})

\* the number of BAT entries that name a block
AllocatedBlocks(bat) == Cardinality({i \in DOMAIN bat : bat[i] # DD_BLOCK_UNUSED})

\* the length the layout gives the file of the sparse extent e
LayoutLength(e) ==
    SECTOR + HeaderSize + round_up(Len(e.bat) * 4, SECTOR) + SECTOR * PopulatedLocators(e.header)
        + AllocatedBlocks(e.bat) * (e.bmlen + header_block_size(e.header)) + SECTOR

TooBig(size_mb) == U64Lt(U64(2040 * 1024), size_mb)
ExpectedCapacity(size_mb) == U64(((ToNat(size_mb) + 1) \div 2) * 2 * MiB)

\* C9: create_fixed and create_dynamic fail with DiskSizeTooBig and create no
\* file exactly when size_mb megabytes, rounded up to whole 2 MiB blocks,
\* exceed 2040 GiB; otherwise the image has that rounded capacity.
C9_SizeRounding ==
    res.op \in {"create_fixed", "create_dynamic"} =>
        IF TooBig(res.size_mb)
           THEN ~ res.ok /\ res.err = "DiskSizeTooBig" /\ res.len1 = res.len0
        ELSE res.ok /\ res.cap = ExpectedCapacity(res.size_mb)

\* C10: open of a file that create_fixed, create_dynamic or create_diff made
\* succeeds and gives an image of the created type, capacity and uuid.
C10_OpenAfterCreate ==
    (res.op = "open" /\ created[res.path] # NoInfo)
        => /\ res.ok
           /\ res.val.type = created[res.path].type
           /\ res.val.cap = created[res.path].cap
           /\ res.val.uuid = created[res.path].uuid

C10_Witness ==
    res.op = "open" /\ res.ok /\ res.type = "Diff" /\ created[res.path] # NoInfo

\* the file holds a fixed image: its last sector is a footer of type Fixed
HoldsFixedImage(f) ==
    /\ Exists(f) /\ f.len >= SECTOR
    /\ VhdFooter_read(f, "rw", f.len - SECTOR).ok
    /\ footer_disk_type(VhdFooter_read(f, "rw", f.len - SECTOR).val) = "Fixed"

\* C11: a create_diff whose parent file does not exist fails with
\* ParentNotExist, one whose parent is a fixed image fails with
\* ParentNotDynamic; in both cases every file is afterwards what it was before
\* (no file appears at the path, the parent is unchanged).
C11_DiffParentErrors ==
    [][(res'.op = "create_diff" /\ res' # res)
          => /\ ~ Exists(fs[res'.parent])
                   => (~ res'.ok /\ res'.err = "ParentNotExist" /\ fs' = fs)
             /\ HoldsFixedImage(fs[res'.parent])
                   => (~ res'.ok /\ res'.err = "ParentNotDynamic" /\ fs' = fs)]_vars

C11_Witness ==
    /\ res.op = "create_diff" /\ res.err = "ParentNotDynamic"
    /\ HoldsFixedImage(fs[res.parent]) /\ ~ Exists(fs[res.path])

\* C12: an image of type Diff that open returns holds its parent image,
\* opened from the parent file the header names.
C12_DiffHoldsParent ==
    (res.op = "open" /\ res.ok /\ res.type = "Diff")
        => (img.ext.kind = "sparse" /\ img.ext.parent # NoImage)

\* the kinds of the entries in the journal file, in the order written
EntryKinds == [i \in DOMAIN jfile.ents |-> ToNat(swap_bytes(jfile.ents[i].e.etype))]

Repeat(n, x) == [i \in 1..n |-> x]

\* the metadata entries VhdJournal::create is to write for the image i
MetadataKinds(i) ==
    IF disk_type(i) = "Fixed" THEN <<EntryTypeCode("FooterP")>>
    ELSE <<EntryTypeCode("FooterP"), EntryTypeCode("FooterC"), EntryTypeCode("Header")>>
            \o Repeat(PopulatedLocators(i.ext.header), EntryTypeCode("Locator"))
            \o <<EntryTypeCode("Bat")>>

\* C13: VhdJournal::create returns a journal whose file holds the metadata
\* entries FooterPrimary, then for a dynamic or differencing image FooterCopy,
\* Header, one Locator per populated locator slot and BAT, in this order; the
\* header counts 1 (fixed), 4 (dynamic) or 6 (differencing) metadata entries
\* and no data entry, and the metadata start at the journal header size.
C13_JournalMetadata ==
    res.op = "journal_create"
        => /\ res.ok /\ jrn # NoJournal
           /\ EntryKinds = MetadataKinds(jrn.img)
           /\ ToNat(jrn.hd.journal_metadata_entries)
                 = (CASE res.type = "Fixed" -> 1 [] res.type = "Dynamic" -> 4 [] OTHER -> 6)
           /\ ToNat(jrn.hd.journal_data_entries) = 0
           /\ ToNat(jrn.hd.journal_metadata_offset) = JournalHeaderSize

\* the step is a call of add_block (it counts the call, or panics and drops
\* the journal)
AddBlockStep ==
    /\ res'.op = "add_block" /\ jrn # NoJournal
    /\ jrn' = NoJournal \/ jrn'.adds # jrn.adds

\* the payloads add_block(index, mode) is to append: the block's bitmap when
\* the METADATA bit of mode is set, then the block's data when the DATA bit is
BlockPayloads(mode) ==
    (IF (mode \div VHD_JOURNAL_METADATA) % 2 = 1 THEN <<"bitmap">> ELSE <<>>)
        \o (IF (mode \div VHD_JOURNAL_DATA) % 2 = 1 THEN <<"bytes">> ELSE <<>>)

\* C14: add_block on the journal of a dynamic or differencing image succeeds
\* and appends exactly the Data entries its mode asks for: the bitmap entry iff
\* mode has the METADATA bit, the data entry iff mode has the DATA bit.
C14_AddBlockModes ==
    [][(AddBlockStep /\ Sparse(res'.type))
          => /\ res'.ok
             /\ Len(jfile'.ents) = Len(jfile.ents) + Len(BlockPayloads(res'.n))
             /\ \A i \in 1..Len(BlockPayloads(res'.n)) :
                    /\ jfile'.ents[Len(jfile.ents) + i].data.t = BlockPayloads(res'.n)[i]
                    /\ swap_bytes(jfile'.ents[Len(jfile.ents) + i].e.etype)
                          = U32(EntryTypeCode("Data"))]_vars

\* C15: add_block on the journal of a fixed image fails with
\* NeedDyncOrDiffImage for every index and mode and leaves the journal file
\* (its header and its entries) and the in-memory journal header as they were.
C15_AddBlockFixed ==
    [][(AddBlockStep /\ res'.type = "Fixed")
          => /\ ~ res'.ok /\ res'.err = "NeedDyncOrDiffImage"
             /\ jfile' = jfile
             /\ jrn' # NoJournal /\ jrn'.hd = jrn.hd]_vars

C15_Witness ==
    /\ res.op = "add_block" /\ res.type = "Fixed" /\ res.n = 3
    /\ jrn # NoJournal /\ jrn.adds = 2

\* C16: commit returns successfully whatever was added to the journal,
\* removes the journal file, leaves the image file as it was when the journal
\* was created, and closes the journal.
C16_CommitDeletes ==
    res.op = "commit" => (res.ok /\ ~ jfile.exists /\ res.val = TRUE /\ jrn = NoJournal)

\* C17: block_id and set_block_id make the same bounds check.  Below the
\* length of the table set_block_id succeeds and stores the entry, leaving the
\* other entries alone, and block_id returns the entry stored; at or past the
\* length both fail with InvalidBlockIndex and the table is unchanged.
C17_BatBounds ==
    calc.op \in {"block_id", "set_block_id"} =>
        IF calc.index < Len(calc.before)
           THEN /\ calc.ok
                /\ calc.op = "block_id"
                      => (calc.val = calc.before[calc.index + 1] /\ calc.bat = calc.before)
                /\ calc.op = "set_block_id"
                      => calc.bat = [calc.before EXCEPT ![calc.index + 1] = calc.id]
        ELSE ~ calc.ok /\ calc.err = "InvalidBlockIndex" /\ calc.bat = calc.before

\* the geometry of a capacity in bytes by the reference algorithm, sectors
\* of 512 bytes
RefGeometry(c) ==
    LET total == IF U64Lt(MaxChsBytes, c) THEN 65535 * 16 * 255
                 ELSE ToNat(Shr(c, 9))
        cth17 == total \div 17
        h17   == Max((cth17 + 1023) \div 1024, 4)
        to31  == cth17 >= h17 * 1024 \/ h17 > 16
        cth31 == IF to31 THEN total \div 31 ELSE cth17
        h31   == IF to31 THEN 16 ELSE h17
        to63  == cth31 >= h31 * 1024
        heads == IF total > 65535 * 16 * 63 THEN 16 ELSE IF to63 THEN 16 ELSE h31
        spt   == IF total > 65535 * 16 * 63 THEN 255
                 ELSE IF to63 THEN 63 ELSE IF to31 THEN 31 ELSE 17
    IN  [cylinders |-> (total \div spt) \div heads, heads |-> heads, sectors_per_track |-> spt]

\* C18: with_vhd_capacity gives every capacity from 0 to 2040 GiB the geometry
\* of the reference algorithm: the sector count is capacity / 512 cut at
\* 65535 * 16 * 255 (not truncated from 4 GiB on), above 65535 * 16 * 63
\* sectors there are 16 heads and 255 sectors per track, below the 17 / 31 / 63
\* cascade applies, and 10 MiB has 4 heads and 17 sectors per track.
C18_Geometry ==
    calc.op = "geometry"
        => /\ calc.val = RefGeometry(calc.size)
           /\ calc.size = U64(10 * MiB)
                 => (calc.val.heads = 4 /\ calc.val.sectors_per_track = 17)

\* C19: no call of a public operation (create, open, read_at, write_at,
\* flush, drop, the journal's create, add_block, commit, revert) panics:
\* every failure comes back as an error value.
C19_NoPanic == res.op # "init" => res.err # "panic"

\* the sum of the bytes q[lo] .. q[hi]
RECURSIVE SumRange(_, _, _)
SumRange(q, lo, hi) ==
    IF lo > hi THEN 0
    ELSE IF lo = hi THEN q[lo]
    ELSE SumRange(q, lo, (lo + hi) \div 2) + SumRange(q, ((lo + hi) \div 2) + 1, hi)

\* the complement of the 32-bit sum of the bytes q
ByteChecksum(q) == Not32(SumRange(q, 1, Len(q)))

\* C20: the checksum VhdFooter::new and VhdHeader::new store is the 32-bit
\* complement of the sum of the record's bytes taken with a zero checksum
\* field, and the record written in its on-disk form and read back passes the
\* checksum validation and has the field values it was built with.
C20_ChecksumRoundTrip ==
    /\ calc.op = "footer"
          => /\ calc.rec.checksum
                   = ByteChecksum(FooterSeq([calc.rec EXCEPT !.checksum = U32(0)]))
             /\ calc.val = [ok |-> TRUE, err |-> "", val |-> calc.rec]
    /\ calc.op = "header"
          => /\ calc.rec.checksum
                   = ByteChecksum(HeaderSeq([calc.rec EXCEPT !.checksum = U32(0)]))
             /\ calc.val = [ok |-> TRUE, err |-> "", val |-> calc.rec]

C20_Witness ==
    /\ calc.op = "header" /\ calc.val.ok /\ calc.two
    /\ calc.rec.prt_loc[1].code = PLAT_CODE_W2KU
    /\ calc.rec.max_bat_size = U32(5)

\* the byte offset just past the BAT region of the header h
AfterBat(h) == header_table_offset(h) + round_up(header_max_bat_size(h) * 4, SECTOR)

\* the footer at the end of the file at path p, as VhdFooter::read returns it
FooterOnDisk(p) == VhdFooter_read(fs[p], VhdFile_open_mode, fs[p].len - SECTOR)

\* the sparse header in the file at path p, as VhdHeader::read returns it
HeaderOnDisk(p) == VhdHeader_read(fs[p], VhdFile_open_mode, DEFAULT_HEADER_OFFSET)

Before == [fs |-> fs, img |-> img, dbg |-> dbg, junk |-> 0]
After == [fs |-> fs', img |-> img', dbg |-> dbg', junk |-> 0]

\* a step that is a write_at call on the held image
WriteStep == img # NoImage /\ res'.op = "write_at" /\ res' # res

\* what read_at returns for sector s of the image
ReadSector(iw, s) == VhdImage_read_at(iw, s * SECTOR, SECTOR)

\* the sector s with the bytes of the request <<off, data>> that fall into it
\* put in place of those of old
Splice(old, s, off, data) ==
    [i \in 1..SECTOR |->
        IF off <= s * SECTOR + i - 1 /\ s * SECTOR + i - 1 < off + Len(data)
           THEN data[s * SECTOR + i - off] ELSE old[i]]

\* C22: a write_at on a dynamic or differencing image that is not
\* sector-aligned or is shorter than a sector succeeds, and reading a sector it
\* touches then returns what reading that sector returned before with exactly
\* the written bytes put in place, whichever sector of the block it is.
C22_PartialWrite ==
    [][(/\ WriteStep /\ Sparse(res'.type)
        /\ InsideCapacity(res'.cap, res'.off, res'.n)
        /\ (res'.off % SECTOR # 0 \/ res'.n < SECTOR))
          => /\ res'.ok
             /\ \A s \in (res'.off \div SECTOR)..((res'.off + res'.n - 1) \div SECTOR) :
                    ReadSector(Before, s).ok
                       => /\ ReadSector(After, s).ok
                          /\ ReadSector(After, s).val
                                = Splice(ReadSector(Before, s).val, s, res'.off, res'.data)]_vars

\* the bit of sector k of block b in the bitmap of the extent e over the file
\* f: the cached bitmap when the cache holds block b, the one in the file else
BitOf(e, f, b, k) ==
    IF e.cbi = b THEN BitSet(e.cbm, k)
    ELSE BitSet(BitmapRead(f, "rw", ToNat(e.bat[b + 1]) * SECTOR, e.bmlen).val, k)

\* sector k of block b is in the file f of the extent e
InFile(e, f, b, k) == e.bat[b + 1] # DD_BLOCK_UNUSED /\ BitOf(e, f, b, k)

\* the 512 bytes of sector k of block b in the file f of the extent e
FileSector(e, f, b, k) == ReadBytes(f, (ToNat(e.bat[b + 1]) + k) * SECTOR + e.bmlen, SECTOR)

\* sector s of the image in the file at path p, which has no parent
RootSector(p, s) ==
    LET e == VhdImage_open(fs, p).val.ext
        spb == header_block_size(e.header) \div SECTOR
    IN  IF InFile(e, fs[p], s \div spb, s % spb) THEN FileSector(e, fs[p], s \div spb, s % spb)
        ELSE Zeros(SECTOR)

\* sector s of the image at path p held as the extent e: from its file when
\* the sector's bit is set, from the parent it was created over (zeros when
\* it has none) when the bit is clear or the block is not allocated
ImageSector(p, e, s) ==
    LET spb == header_block_size(e.header) \div SECTOR
    IN  IF InFile(e, fs[p], s \div spb, s % spb) THEN FileSector(e, fs[p], s \div spb, s % spb)
        ELSE IF created[p].type = "Diff" THEN RootSector(created[p].parent, s)
        ELSE Zeros(SECTOR)

\* C23: a read_at inside the capacity of a dynamic or differencing image
\* succeeds and returns the requested length, every byte from the image's file
\* when the bit of its sector is set and from the parent (zeros without one)
\* when the bit is clear or the block is not allocated.
C23_ReadSources ==
    (res.op = "read_at" /\ Sparse(res.type) /\ Inside)
        => /\ res.ok
           /\ Len(res.val) = res.n
           /\ LET exp == [s \in (res.off \div SECTOR)..((res.off + res.n - 1) \div SECTOR)
                              |-> ImageSector(res.path, img.ext, s)]
              IN  \A i \in 1..res.n :
                     res.val[i] = exp[(res.off + i - 1) \div SECTOR][((res.off + i - 1) % SECTOR) + 1]

\* ------------------------------------------------------------------------
\* The sparse extent on its own: the functions of sparse.rs applied to an
\* extent drawn in the initial state.  The extents are the one create_dynamic
\* returns (its file handle only writes), and the one open returns for a
\* dynamic image of 6 MiB with blocks 0 and 1 allocated, over the file handle
\* VhdFile::open makes (it only reads) and over a file handle that reads and
\* writes, for which read_at, write_at, the bitmap cache and flush are written.
\* The build has no debug assertions.
\* ------------------------------------------------------------------------
\* the number of block positions allocate_block may hand out
MaxBlocks == 3

ExtentFooter == VhdFooter_new(U64(6 * MiB), "Dynamic", 0)
ExtentHeader == VhdHeader_new(U64(6 * MiB), DEFAULT_TABLE_OFFSET, DD_BLOCKSIZE_DEFAULT, NoParent)

\* the sectors a block takes in the file: its bitmap and its data
BlockSectors == 1 + DD_BLOCKSIZE_DEFAULT \div SECTOR

\* the BAT of the image: blocks 0 and 1 allocated one after the other behind
\* the BAT, block 2 not allocated
ExtentBat == <<U32(ForeignBlockSector), U32(ForeignBlockSector + BlockSectors), DD_BLOCK_UNUSED>>

\* the image file: in block 0 the bit of sector 1 is set and the sector holds
\* 0x55; in block 1 the bit of sector 0 is set and the sector holds 0x66
ExtentFile ==
    PutCell(
        PutCells(
            PutCell(
                PutCell(
                    PutCells(EmptyFile, 0,
                             <<[t |-> "ftr", b |-> VhdFooter_to_bytes(ExtentFooter)],
                               [t |-> "hdr", part |-> 0, b |-> header_swap_bytes(ExtentHeader)],
                               [t |-> "hdr", part |-> 1, b |-> header_swap_bytes(ExtentHeader)]>>
                                 \o BatCells(ExtentBat)),
                    ForeignBlockSector, [t |-> "raw", b |-> (0 :> 64)]),
                ForeignBlockSector + 2, [t |-> "raw", b |-> [k \in 0..(SECTOR - 1) |-> 85]]),
            ForeignBlockSector + BlockSectors,
            <<[t |-> "raw", b |-> (0 :> 128)],
              [t |-> "raw", b |-> [k \in 0..(SECTOR - 1) |-> 102]]>>),
        ForeignBlockSector + 2 * BlockSectors,
        [t |-> "ftr", b |-> VhdFooter_to_bytes(ExtentFooter)])

\* the files before any call: the image file at c.vhd
ExtentFiles == [p \in Paths |-> IF p = "c.vhd" THEN ExtentFile ELSE NoFile]

\* the image open returns for c.vhd, held over a file handle of the given mode
Opened(mode) == [VhdImage_open(ExtentFiles, "c.vhd").val EXCEPT !.ext.mode = mode]

\* the files and the image held when the calls start
ExtentInputs ==
    {[fs |-> ExtentFiles, img |-> Opened(mode)] : mode \in {VhdFile_open_mode, "rw"}}
    \cup {[fs |-> VhdImage_create_dynamic(ExtentFiles, "a.vhd", U64(3), 1,
                                           [dbg |-> FALSE, junk |-> 0]).iw.fs,
            img |-> VhdImage_create_dynamic(ExtentFiles, "a.vhd", U64(3), 1,
                                            [dbg |-> FALSE, junk |-> 0]).iw.img]}

ExtentInit ==
    /\ \E e \in ExtentInputs : fs = e.fs /\ img = e.img
    /\ jfile = NoJournalFile
    /\ jrn = NoJournal
    /\ res = NoRes
    /\ nid = 1
    /\ dbg = FALSE
    /\ created = [p \in Paths |-> NoInfo]
    /\ wlog = NoLog
    /\ calc = NoCalc

\* the number of block positions that lie before next_block_pos
Blocks(e) == (e.nbp - AfterBat(e.header)) \div (e.bmlen + header_block_size(e.header))

\* the extent is held
Held == Alive /\ img # NoImage

\* the extent may be handed another block position
CanGrow == Blocks(img.ext) < MaxBlocks

\* a call of a function of the extent that returned r
ExtentCall(op, index, r) == AfterOp(op, r, Left(r), index, 0, <<>>, <<>>, wlog)

\* a call of SparseExtent::allocate_block
AllocateBlock(block_index) ==
    /\ Held /\ CanGrow
    /\ ExtentCall("allocate_block", block_index,
                  Lift(World(0), allocate_block(ExtWorld(World(0)), block_index)))

\* a call of SparseExtent::populate_block_bitmap
PopulateBlockBitmap(index) ==
    /\ Held
    /\ ExtentCall("populate_block_bitmap", index,
                  Lift(World(0), populate_block_bitmap(ExtWorld(World(0)), index)))

\* a call of the extent's flush (impl Flush for SparseExtent)
ExtentFlush ==
    /\ Held
    /\ ExtentCall("extent_flush", 0, Lift(World(0), SparseExtent_flush(ExtWorld(World(0)))))

\* allocate_block up to its first file operation: the write-back of the cache
alloc_saved(w, block_index) ==
    Bind(block_id(w.h.bat, block_index), LAMBDA id :
         IF ~ id.ok THEN Err(w, id.err)
         ELSE IF id.val # DD_BLOCK_UNUSED THEN Err(w, "UnexpectedBlockId")
         ELSE save_cached_bitmap(w))

\* the extent once allocate_block has zeroed the bitmap buffer and moved
\* next_block_pos and cached_block_index
alloc_moved(w, block_index) ==
    [w EXCEPT !.h.cbm = <<>>, !.h.nbp = w.h.nbp + w.h.bmlen + header_block_size(w.h.header),
              !.h.cbi = block_index]

\* an allocate_block that writes the BAT entry in the file before it zeroes
\* the footer and extends the file
alloc_entry_first(w, block_index) ==
    Try(alloc_saved(w, block_index), LAMBDA sv :
        Try(file_write_all_at(
                SetFile(alloc_moved(sv.w, block_index),
                        IF CanWrite(sv.w.h.mode)
                           THEN PutBatEntry(TheFile(sv.w),
                                            header_table_offset(sv.w.h.header) + block_index * 4,
                                            swap_bytes(U32(sv.w.h.nbp \div SECTOR)))
                        ELSE TheFile(sv.w)),
                sv.w.h.nbp, Zeros(FooterSize)),
            LAMBDA z : z))

\* allocate_block up to its second file operation: the footer at the block's
\* position overwritten with zeros
alloc_zeroed(w, block_index) ==
    Try(alloc_saved(w, block_index), LAMBDA sv :
        IF sv.w.h.nbp < TheFile(sv.w).len
           THEN file_write_all_at(alloc_moved(sv.w, block_index), sv.w.h.nbp, Zeros(FooterSize))
        ELSE Ok(alloc_moved(sv.w, block_index), 0))

\* allocate_block up to its third file operation: the byte that extends the file
alloc_extended(w, block_index) ==
    Try(alloc_zeroed(w, block_index), LAMBDA z : file_write_all_at(z.w, z.w.h.nbp - 1, <<0>>))

\* allocate_block up to its last file operation: the BAT entry
alloc_entry(w, block_index) ==
    Try(alloc_extended(w, block_index), LAMBDA e :
        allocate_bat(e.w, block_index, e.w.h.nbp - e.w.h.bmlen - header_block_size(e.w.h.header)))

\* allocate_block up to its k-th file operation
AllocPrefix(w, block_index, k) ==
    CASE k = 1 -> alloc_saved(w, block_index)
      [] k = 2 -> alloc_zeroed(w, block_index)
      [] k = 3 -> alloc_extended(w, block_index)
      [] OTHER -> alloc_entry(w, block_index)

\* the process ends during allocate_block, after its k-th file operation:
\* nothing is dropped or flushed, the file stays as that operation left it
Crash(block_index, k) ==
    /\ Held /\ CanGrow
    /\ fs' = AllocPrefix(ExtWorld(World(0)), block_index, k).w.fs
    /\ img' = NoImage
    /\ res' = [NoRes EXCEPT !.op = "crash", !.path = img.ext.path, !.ok = FALSE,
                            !.err = "panic", !.off = block_index, !.n = k,
                            !.type = disk_type(img), !.cap = capacity(img),
                            !.mode = img.ext.mode, !.len0 = storage_size(fs, img),
                            !.len1 = AllocPrefix(ExtWorld(World(0)), block_index, k)
                                        .w.fs[img.ext.path].len,
                            !.nbp0 = Nbp(img)]
    /\ UNCHANGED <<jfile, jrn, nid, dbg, created, wlog, calc>>

ExtentNext ==
    \/ \E q \in ReadReqs : ReadAt(q)
    \/ \E k \in DOMAIN WriteReqs : WriteAt(k, 255)
    \/ Flush
    \/ ExtentFlush
    \/ \E i \in 1..2 : PopulateBlockBitmap(i)
    \/ \E i \in 1..3 : AllocateBlock(i)
    \/ \E i \in 1..2, k \in 1..4 : Crash(i, k)

ExtentSpec == ExtentInit /\ [][ExtentNext]_vars

\* a step that is a call of allocate_block on the held extent
AllocStep == Held /\ res'.op = "allocate_block" /\ res' # res

\* the BAT entry at index i of the extent e is a sector pointer
Allocated(e, i) == i \in 0..(Len(e.bat) - 1) /\ e.bat[i + 1] # DD_BLOCK_UNUSED

BlockPos(e, i) == ToNat(e.bat[i + 1]) * SECTOR
BlockSize(e) == e.bmlen + header_block_size(e.header)

BitmapOf(e, f, b) ==
    IF e.cbi = b THEN e.cbm
    ELSE BitmapRead(f, "rw", BlockPos(e, b), e.bmlen).val

\* the block a request <<off, n>> starts in, and whether it ends in it
BlockOf(e, off) == off \div header_block_size(e.header)
Confined(e, off, n) == n > 0 /\ BlockOf(e, off) = BlockOf(e, off + n - 1)

\* C26: a write_at confined to block i of a dynamic image succeeds, BAT[i]
\* is a sector pointer afterwards, every other BAT entry keeps its value, and
\* the bits set in block i's bitmap are those of the written sectors and
\* those set before.
C26_WriteAllocates ==
    [][(/\ WriteStep /\ res'.type = "Dynamic"
        /\ InsideCapacity(res'.cap, res'.off, res'.n)
        /\ Confined(img.ext, res'.off, res'.n))
          => LET i == BlockOf(img.ext, res'.off)
                 bs == header_block_size(img.ext.header)
                 first == (res'.off % bs) \div SECTOR
                 last == ((res'.off + res'.n - 1) % bs) \div SECTOR
             IN  /\ res'.ok
                 /\ img' # NoImage
                 /\ Allocated(img'.ext, i)
                 /\ \A j \in 0..(Len(img.ext.bat) - 1) :
                        j # i => img'.ext.bat[j + 1] = img.ext.bat[j + 1]
                 /\ \A k \in 0..(bs \div SECTOR - 1) :
                        BitSet(BitmapOf(img'.ext, fs', i), k)
                           <=> \/ k \in first..last
                               \/ /\ Allocated(img.ext, i)
                                  /\ BitSet(BitmapOf(img.ext, fs, i), k)]_vars

\* the bitmap of block b of the extent e as the file f holds it
DiskBitmap(e, f, b) == BitmapRead(f, "rw", BlockPos(e, b), e.bmlen)

\* every bit set in the bitmap disk is set in the bitmap cbm
BitsWithin(disk, cbm) ==
    \A i \in DOMAIN disk, b \in 0..7 : BitSet(disk, 8 * i + b) => BitSet(cbm, 8 * i + b)

\* the cache of the extent e over the file f describes the block it names
CacheHolds(e, f) ==
    e.cbi # INVALID_CACHE_INDEX
        => /\ Allocated(e, e.cbi)
           /\ DiskBitmap(e, f, e.cbi).ok
           /\ BitsWithin(DiskBitmap(e, f, e.cbi).val, e.cbm)
           /\ ~ e.dirty => e.cbm = DiskBitmap(e, f, e.cbi).val

\* a step in which the cache of the held extent goes from one block to another
CacheSwitch ==
    /\ img # NoImage /\ img' # NoImage
    /\ img.ext.cbi # INVALID_CACHE_INDEX
    /\ img'.ext.cbi # img.ext.cbi

\* a step that switches a dirty cache to another block leaves the cached
\* bitmap in the file as the previous block's bitmap
SwitchWritesBack ==
    (CacheSwitch /\ img.ext.dirty /\ Allocated(img.ext, img.ext.cbi))
        => /\ DiskBitmap(img.ext, fs'[img.ext.path], img.ext.cbi).ok
           /\ DiskBitmap(img.ext, fs'[img.ext.path], img.ext.cbi).val = img.ext.cbm

ExtentFlushStep == img # NoImage /\ res'.op = "extent_flush" /\ res' # res

\* the file f with the cached bitmap of the extent e written at the bitmap
\* position of the cached block
WithBitmap(e, f) == PutCells(f, ToNat(e.bat[e.cbi + 1]), BitmapCells(e.cbm, e.bmlen))

FlushStep == img # NoImage /\ res'.op = "flush" /\ res' # res

\* the 512 bytes VhdFooter::write puts in the file for the footer f
Serialised(f) == FooterSeq(VhdFooter_to_bytes(f))

CrashBat ==
    VhdBat_read(fs[res.path], VhdFile_open_mode, DEFAULT_TABLE_OFFSET,
                ceil(ToNat(res.cap), DD_BLOCKSIZE_DEFAULT))

\* sector k of block i of the image at path p had its bit set in the file the
\* extent was opened over
InitialBit(p, i, k) ==
    /\ ExtentFiles[p] # NoFile
    /\ ExtentBat[i + 1] # DD_BLOCK_UNUSED
    /\ BitSet(BitmapRead(ExtentFiles[p], VhdFile_open_mode,
                         ToNat(ExtentBat[i + 1]) * SECTOR, SECTOR).val, k)

\* sector k of block i is one a write_at request covers
WrittenSector(i, k) ==
    \E q \in DOMAIN WriteReqs :
        \E o \in WriteReqs[q][1]..(WriteReqs[q][1] + Len(WriteReqs[q][2]) - 1) :
            /\ o \div DD_BLOCKSIZE_DEFAULT = i
            /\ (o % DD_BLOCKSIZE_DEFAULT) \div SECTOR = k

Reopened(p) == VhdImage_open(fs', p)

\* what read_at returns for sector s of that image
ReopenedSector(p, s) ==
    ReadSector([fs |-> fs', img |-> Reopened(p).val, dbg |-> FALSE, junk |-> 0], s)

\* a step that is a write_at on the held image that returned Ok
CompletedWrite == img # NoImage /\ res'.op = "write_at" /\ res'.ok /\ res'.val > 0

WriteOrFlush ==
    /\ img # NoImage /\ img' # NoImage
    /\ res'.op \in {"write_at", "flush"} /\ Sparse(res'.type)

\* sector k of block b is one the request <<off, n>> covers
Covers(e, off, n, b, k) ==
    \E s \in (off \div SECTOR)..((off + n - 1) \div SECTOR) :
        /\ s \div (header_block_size(e.header) \div SECTOR) = b
        /\ s % (header_block_size(e.header) \div SECTOR) = k

Faults == {"none", "header", "bat", "locator0", "locator1", "footer0", "footer1"}

\* the write r, or an I/O error in its place when it is the write that fails
Failing(fault, name, w, r) == IF fault = name THEN Err(w, "Io") ELSE r

\* SparseExtent::write_footer with a failing write
write_footer_fault(w, footer, fault) ==
    Try(Failing(fault, "footer0", w, write_footer_at(w, 0, footer)), LAMBDA a :
        Failing(fault, "footer1", a.w, write_footer_at(a.w, footer_pos(a.w.h), footer)))

\* SparseExtent::create from the locators on, with a failing write
create_locators_fault(w, header, footer, parent, bat_size, fault) ==
    Bind(IF parent.has
            THEN Try(Failing(fault, "locator0", w, write_locator(w, header, 0, parent)),
                     LAMBDA l0 : Failing(fault, "locator1", l0.w,
                                         write_locator(l0.w, header, 1, parent)))
         ELSE Ok(w, 0),
         LAMBDA l : IF ~ l.ok THEN Err(l.w, "panic")
                    ELSE Try(write_footer_fault(
                                 [l.w EXCEPT !.h.nbp = DEFAULT_TABLE_OFFSET + bat_size
                                                          + locators_size(parent)],
                                 footer, fault),
                             LAMBDA wf : Ok(wf.w, wf.w.h)))

\* SparseExtent::create once the header was built, with a failing write; the
\* result of the write that VhdBat::write makes is dropped
create_with_fault(files, path, footer, parent, env, header, fault) ==
    Bind(VhdBat_new(header_max_bat_size(header)), LAMBDA bat :
      Bind([fs |-> [files EXCEPT ![path] = EmptyFile],
            h |-> SparseExtent_new(path, VhdFile_create_mode, header, bat,
                                   bitmap_size_of(header), 0),
            dbg |-> env.dbg, junk |-> env.junk], LAMBDA w :
         Try(Failing(fault, "header", w,
                     file_put_cells(w, DEFAULT_HEADER_OFFSET,
                        <<[t |-> "hdr", part |-> 0, b |-> header_swap_bytes(header)],
                          [t |-> "hdr", part |-> 1, b |-> header_swap_bytes(header)]>>)),
             LAMBDA wh :
                Bind(Failing(fault, "bat", wh.w,
                             file_put_cells(wh.w, DEFAULT_TABLE_OFFSET, BatCells(bat))),
                     LAMBDA wb :
                        create_locators_fault(IF wb.ok THEN wb.w ELSE wh.w, header, footer,
                                              parent, round_up(Len(bat) * 4, SECTOR), fault)))))

\* SparseExtent::create with a failing write
SparseExtent_create_fault(files, path, footer, parent, env, fault) ==
    create_with_fault(files, path, footer, parent, env,
                      with_relative_locator(
                          VhdHeader_new(footer_current_size(footer), DEFAULT_TABLE_OFFSET,
                                        DD_BLOCKSIZE_DEFAULT, parent), parent), fault)

\* VhdImage::create_dynamic with a failing write
create_dynamic_fault(files, path, size_mb, k, env, fault) ==
    Bind(create_size(size_mb), LAMBDA size :
         IF ~ check_max_size(size) THEN IErr(NewWorld(files, env), "DiskSizeTooBig")
         ELSE Bind(VhdFooter_new(size, "Dynamic", k), LAMBDA footer :
                   created_image(files, env, footer,
                                 SparseExtent_create_fault(files, path, footer, NoParent, env,
                                                           fault))))

\* VhdImage::create_diff with a failing write
create_diff_fault(files, path, parent_path, k, env, fault) ==
    IF ~ Exists(files[parent_path]) THEN IErr(NewWorld(files, env), "ParentNotExist")
    ELSE Bind(VhdImage_open(files, parent_path), LAMBDA po :
         IF ~ po.ok THEN IErr(NewWorld(files, env), po.err)
         ELSE IF disk_type(po.val) = "Fixed"
            THEN IErr(NewWorld(VhdImage_drop([NewWorld(files, env) EXCEPT !.img = po.val]), env),
                      "ParentNotDynamic")
         ELSE Bind(VhdFooter_new(capacity(po.val), "Diff", k), LAMBDA footer :
                   created_diff(env, footer, po,
                                SparseExtent_create_fault(files, path, footer,
                                                          [has |-> TRUE, path |-> parent_path,
                                                           footer |-> po.val.footer],
                                                          env, fault))))

\* the write named fault is one create_dynamic(size_mb) makes
DynamicWrites(size_mb, fault) ==
    /\ check_max_size(create_size(size_mb))
    /\ fault \in {"header", "bat", "footer0", "footer1"}

\* the write named fault is one create_diff over the parent at parent_path makes
DiffWrites(parent_path, fault) ==
    /\ Exists(fs[parent_path])
    /\ VhdImage_open(fs, parent_path).ok
    /\ disk_type(VhdImage_open(fs, parent_path).val) # "Fixed"
    /\ fault # "none"

\* what a create with a failing write leaves; res.mode names the write that
\* failed, "none" when no write failed
AfterFault(op, path, size_mb, parent, r, failed) ==
    /\ fs' = r.iw.fs
    /\ img' = IF r.ok THEN r.iw.img ELSE NoImage
    /\ res' = [NoRes EXCEPT !.op = op, !.path = path, !.ok = r.ok, !.err = r.err,
                            !.size_mb = size_mb, !.parent = parent, !.mode = failed,
                            !.type = IF r.ok THEN disk_type(r.iw.img) ELSE "none",
                            !.cap = IF r.ok THEN capacity(r.iw.img) ELSE <<>>,
                            !.len0 = fs[path].len, !.len1 = r.iw.fs[path].len,
                            !.nbp1 = IF r.ok /\ r.iw.img.ext.kind = "sparse"
                                        THEN r.iw.img.ext.nbp ELSE 0]
    /\ UNCHANGED <<jfile, jrn, nid, dbg, created, wlog, calc>>

CreateDynamicFault(path, size_mb, fault) ==
    /\ res.op = "init" /\ Creatable(size_mb)
    /\ AfterFault("create_dynamic", path, size_mb, "",
                  create_dynamic_fault(fs, path, size_mb, nid, Env(0), fault),
                  IF DynamicWrites(size_mb, fault) THEN fault ELSE "none")

CreateDiffFault(path, parent, fault) ==
    /\ res.op = "init"
    /\ AfterFault("create_diff", path, <<>>, parent,
                  create_diff_fault(fs, path, parent, nid, Env(0), fault),
                  IF DiffWrites(parent, fault) THEN fault ELSE "none")

FaultNext ==
    \/ \E p \in Paths, m \in SizeMbs, f \in Faults : CreateDynamicFault(p, m, f)
    \/ \E p \in Paths : \E q \in ParentPaths \ {p}, f \in Faults : CreateDiffFault(p, q, f)

FaultSpec == Init /\ [][FaultNext]_vars

\* C33: when a write to the new file fails during create_dynamic or
\* create_diff, the call returns an error that is not a panic, and no image.
C33_CreateErrors ==
    (res.op \in {"create_dynamic", "create_diff"} /\ res.mode # "none")
        => /\ ~ res.ok
           /\ res.err = "Io"
           /\ img = NoImage

\* ------------------------------------------------------------------------
\* ReadAt::read_exact_at over a provider whose read_at returns at most chunk
\* bytes a call (traits.rs).  The source is a byte sequence; the inputs are
\* drawn in the initial state.
\* ------------------------------------------------------------------------
MaxSource == 4
MaxChunk == 3

\* the source of length n: byte i is 10 + i
SourceOf(n) == [i \in 1..n |-> 10 + i]

\* the provider's read_at(offset, buffer of len bytes): the bytes it hands out
short_read_at(src, offset, len, chunk) ==
    IF offset >= Len(src) THEN <<>>
    ELSE SubSeq(src, offset + 1, offset + Min(Min(len, chunk), Len(src) - offset))

\* the loop of read_exact_at: filled is the part of the buffer written so
\* far, left the length of the slice still to fill; every read_at is made at
\* the offset the call was given
RECURSIVE read_exact_loop(_, _, _, _, _)
read_exact_loop(src, offset, filled, left, chunk) ==
    IF left = 0 THEN [ok |-> TRUE, err |-> "", val |-> filled]
    ELSE IF short_read_at(src, offset, left, chunk) = <<>>
       THEN [ok |-> FALSE, err |-> "UnexpectedEOD", val |-> filled]
    ELSE read_exact_loop(src, offset, filled \o short_read_at(src, offset, left, chunk),
                         left - Len(short_read_at(src, offset, left, chunk)), chunk)

ExactInputs ==
    {[NoCalc EXCEPT !.kind = "read", !.before = SourceOf(n), !.index = off, !.size = len,
                    !.id = chunk] :
        n \in 0..MaxSource, off \in 0..(MaxSource + 1), len \in 0..MaxSource,
        chunk \in 1..MaxChunk}

ExactInit ==
    /\ fs = [p \in Paths |-> NoFile]
    /\ jfile = NoJournalFile /\ img = NoImage /\ jrn = NoJournal /\ res = NoRes
    /\ nid = 1 /\ dbg = FALSE /\ created = [p \in Paths |-> NoInfo] /\ wlog = NoLog
    /\ calc \in ExactInputs

\* read_exact_at(offset, buffer) on the drawn source
ReadExact ==
    /\ calc.kind = "read" /\ calc.op = "none"
    /\ calc' = [calc EXCEPT !.op = "read_exact_at",
                            !.ok = read_exact_loop(calc.before, calc.index, <<>>, calc.size,
                                                   calc.id).ok,
                            !.err = read_exact_loop(calc.before, calc.index, <<>>, calc.size,
                                                    calc.id).err,
                            !.val = read_exact_loop(calc.before, calc.index, <<>>, calc.size,
                                                    calc.id).val]
    /\ UNCHANGED <<fs, jfile, img, jrn, res, nid, dbg, created, wlog>>

ExactNext == ReadExact

ExactSpec == ExactInit /\ [][ExactNext]_vars

\* C34: read_exact_at(offset, buffer) with a buffer that is not empty, over
\* a provider that returns short reads, returns Ok with buffer[k] the source byte at offset + k for every k
\* when the source reaches offset + len, and UnexpectedEOD when it does not.
C34_ExactRead ==
    (calc.op = "read_exact_at" /\ calc.size > 0)
        => IF calc.index + calc.size <= Len(calc.before)
              THEN /\ calc.ok
                   /\ calc.val = SubSeq(calc.before, calc.index + 1, calc.index + calc.size)
           ELSE ~ calc.ok /\ calc.err = "UnexpectedEOD"

\* ------------------------------------------------------------------------
\* The journal header and the entry stream (journal.rs, journal_update and
\* journal_write_header)
\* ------------------------------------------------------------------------
\* the bytes the entries ents[1..n] take in the journal file
RECURSIVE StreamBytes(_, _)
StreamBytes(ents, n) ==
    IF n = 0 THEN 0 ELSE StreamBytes(ents, n - 1) + JournalEntrySize + ents[n].data.len

\* the entries of the journal file that are Data entries (d) or are not
EntriesOf(d) ==
    {i \in DOMAIN jfile.ents : (EntryKinds[i] = EntryTypeCode("Data")) = d}

\* the first index of a non-empty set of entries
FirstOf(S) == CHOOSE i \in S : \A j \in S : i <= j

\* C35: while a journal is held (after create, and after every append of
\* create and of add_block), journal_eof is 512 plus the entry headers and
\* payloads appended, the two counters add up to the number of entries, the
\* two offsets are the positions of the first metadata and the first data
\* entry, and the header stored in the journal file is the in-memory header
C35_HeaderConsistent ==
    jrn # NoJournal
        => /\ ToNat(jrn.hd.journal_eof)
                 = JournalHeaderSize + StreamBytes(jfile.ents, Len(jfile.ents))
           /\ JournalHeaderSize = 512
           /\ \A i \in DOMAIN jfile.ents :
                  jfile.ents[i].pos = JournalHeaderSize + StreamBytes(jfile.ents, i - 1)
           /\ ToNat(jrn.hd.journal_metadata_entries) = Cardinality(EntriesOf(FALSE))
           /\ ToNat(jrn.hd.journal_data_entries) = Cardinality(EntriesOf(TRUE))
           /\ ToNat(jrn.hd.journal_metadata_entries) + ToNat(jrn.hd.journal_data_entries)
                 = Len(jfile.ents)
           /\ EntriesOf(FALSE) # {}
                 => ToNat(jrn.hd.journal_metadata_offset) = jfile.ents[FirstOf(EntriesOf(FALSE))].pos
           /\ EntriesOf(TRUE) # {}
                 => ToNat(jrn.hd.journal_data_offset) = jfile.ents[FirstOf(EntriesOf(TRUE))].pos
           /\ jfile.hdr = jheader_swap_bytes(jrn.hd)

\* a journal of a dynamic image that holds the four entries of create and a
\* Data entry of add_block
C35_Witness ==
    /\ jrn # NoJournal
    /\ Cardinality(EntriesOf(FALSE)) = 4
    /\ EntriesOf(TRUE) # {}

\* ------------------------------------------------------------------------
\* The payloads of the journal entries (journal.rs, journal_add_* and
\* add_block)
\* ------------------------------------------------------------------------
\* the bytes of a payload as journal_update writes them: a struct is copied
\* as it lies in memory (StructBuffer::with_value, no swap_bytes), the BAT is
\* its table of entries, a bitmap is the cached bitmap
RECURSIVE EntriesSeq(_)
EntriesSeq(es) == IF es = <<>> THEN <<>> ELSE Head(es) \o EntriesSeq(Tail(es))

PayloadBytes(d) ==
    CASE d.t = "footer" -> FooterSeq(d.b)
      [] d.t = "header" -> HeaderSeq(d.b)
      [] d.t = "bat"    -> EntriesSeq(d.b)
      [] d.t = "bitmap" -> [i \in 1..d.len |-> IF (i - 1) \in DOMAIN d.b THEN d.b[i - 1] ELSE 0]
      [] OTHER          -> Pad(d.b, d.len)

\* the offset and size fields of the entry header stored in the journal file
EntryOffset(ent) == ToNat(swap_bytes(ent.e.offset))
EntrySize(ent) == ToNat(swap_bytes(ent.e.size))

\* the step is a create or an add_block that leaves a journal
JournalStep ==
    /\ jrn' # NoJournal
    /\ \/ jrn = NoJournal
       \/ AddBlockStep

\* the entries the step appended
Appended ==
    {i \in DOMAIN jfile'.ents : jrn = NoJournal \/ i > Len(jfile.ents)}

\* C36: the payload of every entry that create or add_block appends is what
\* the image file holds at [entry.offset, entry.offset + entry.size) when the
\* entry is appended
C36_PayloadIsImage ==
    [][JournalStep
         => \A i \in Appended :
                PayloadBytes(jfile'.ents[i].data)
                    = ReadBytes(fs'[jrn'.img.ext.path], EntryOffset(jfile'.ents[i]),
                                EntrySize(jfile'.ents[i]))]_vars

\* the position at which the entry after ents[i] starts, or journal_eof after
\* the last one
NextEntryPos(i) ==
    IF i < Len(jfile.ents) THEN jfile.ents[i + 1].pos ELSE ToNat(jrn.hd.journal_eof)

\* C37: while a journal is held, the size field of every entry header is the
\* number of payload bytes written after it, and the next entry (or
\* journal_eof) is at the entry's position plus the entry header size plus
\* size; BAT entries and the Data entries of add_block included
C37_SizeIsPayload ==
    jrn # NoJournal
        => \A i \in DOMAIN jfile.ents :
               /\ EntrySize(jfile.ents[i]) = jfile.ents[i].data.len
               /\ NextEntryPos(i) = jfile.ents[i].pos + JournalEntrySize + EntrySize(jfile.ents[i])

\* ------------------------------------------------------------------------
\* VhdJournal::create on an extent after calls of its functions: the calls
\* of ExtentSpec, and create on the image held
\* ------------------------------------------------------------------------
JournalExtentNext ==
    \/ ExtentNext
    \/ JournalCreate

JournalExtentSpec == ExtentInit /\ [][JournalExtentNext]_vars

\* the step is a call of VhdJournal::create
JournalCreateStep == img # NoImage /\ jrn = NoJournal /\ res'.op = "journal_create"

\* the offset at which the image keeps its trailing footer: last_block_pos
\* of a fixed extent, next_block_pos of a sparse one
TrailingFooterPos(i) == IF i.ext.kind = "fixed" THEN ToNat(capacity(i)) ELSE Nbp(i)

AllocateFailed == img # NoImage /\ res'.op = "allocate_block" /\ ~ res'.ok

\* C39: a call of allocate_block that returns an error leaves the extent as
\* it was: next_block_pos, cached_block_index, the cached bitmap and the BAT
\* are unchanged and the file has not grown
C39_FailedAllocation ==
    [][AllocateFailed
         => /\ img' # NoImage
            /\ img'.ext.nbp = img.ext.nbp
            /\ img'.ext.cbi = img.ext.cbi
            /\ img'.ext.cbm = img.ext.cbm
            /\ img'.ext.bat = img.ext.bat
            /\ storage_size(fs', img) = storage_size(fs, img)]_vars

\* ------------------------------------------------------------------------
\* The sector pointers of allocate_block and the sector sum of
\* calc_sector_pos on images of up to 2040 GiB (sparse.rs:442-444, 456-457,
\* 308).  calc is [size: max_bat_size, before: next_block_pos (u64),
\* index: the calls of allocate_block made so far, parent: those made in
\* this behaviour, rec: the block_pos of the last call, id: its sector
\* pointer (u32), two: the cast to u32 lost no bit, val: the u32 sum].
\* ------------------------------------------------------------------------
MaxPointerCalls == 2

\* max_bat_size of images with 2 MiB blocks: 2 MiB, 4 MiB, 63 GiB, and the
\* two largest that check_max_size lets pass (2040 GiB is 1044480 blocks)
PointerBlocks == {1, 2, 32256, 1044479, 1044480}

\* the number of allocate_block calls made on the extent before
EarlierCalls(n) == {0, 1, n - 1, n, 1048319, 1048320, 1048321}

\* sectors of a block in the file: its bitmap and its data
PointerBlockSectors == (SECTOR + DD_BLOCKSIZE_DEFAULT) \div SECTOR

\* next_block_pos of a dynamic image of n blocks after c calls of
\* allocate_block: the end of the BAT and c times bitmap + block (4097
\* sectors), in bytes
PositionAfter(n, c) ==
    Shl(AddFrom(AddFrom(U64(DEFAULT_TABLE_OFFSET \div SECTOR + ceil(n * 4, SECTOR)),
                        Shl(U64(c), 12), 0),
                U64(c * (PointerBlockSectors - 4096)), 0), 9)

\* allocate_block: *next_block_pos += bitmap.len() + block_size
next_pos(block_pos) == AddFrom(block_pos, U64(SECTOR + DD_BLOCKSIZE_DEFAULT), 0)

\* allocate_block: (block_pos / SECTOR) as u32
block_pos_in_sectors(block_pos) == SubSeq(Shr(block_pos, 9), 1, 4)

\* the cast of block_pos / SECTOR to u32 keeps the value
cast_keeps(block_pos) == SubSeq(Shr(block_pos, 9), 5, 8) = <<0, 0, 0, 0>>

\* calc_sector_pos: block_id + sector_in_block in u32, and whether it wraps
sector_sum(id, sector_in_block) == AddFrom(id, U32(sector_in_block), 0)
sum_wraps(id, sector_in_block) ==
    SubSeq(AddFrom(id \o <<0, 0, 0, 0>>, U64(sector_in_block), 0), 5, 8) # <<0, 0, 0, 0>>

PointerInputs ==
    {[NoCalc EXCEPT !.kind = "pointer", !.size = n, !.before = PositionAfter(n, c),
                    !.index = c, !.parent = 0] :
        n \in PointerBlocks, c \in UNION {EarlierCalls(m) : m \in PointerBlocks}}

PointerInit ==
    /\ fs = [p \in Paths |-> NoFile]
    /\ jfile = NoJournalFile /\ img = NoImage /\ jrn = NoJournal /\ res = NoRes
    /\ nid = 1 /\ dbg \in BOOLEAN /\ created = [p \in Paths |-> NoInfo] /\ wlog = NoLog
    /\ calc \in PointerInputs

\* a call of allocate_block on a block whose BAT entry is UNUSED: the
\* position it hands out and the pointer it computes for the BAT
AllocatePointer ==
    /\ calc.kind = "pointer" /\ calc.parent < MaxPointerCalls
    /\ calc' = [calc EXCEPT !.op = "allocate_block", !.index = @ + 1, !.parent = @ + 1,
                            !.rec = calc.before, !.before = next_pos(calc.before),
                            !.id = block_pos_in_sectors(calc.before),
                            !.two = cast_keeps(calc.before),
                            !.ok = TRUE, !.err = "", !.val = <<>>]
    /\ UNCHANGED <<fs, jfile, img, jrn, res, nid, dbg, created, wlog>>

\* calc_sector_pos on a BAT entry that holds the pointer; the sum panics on
\* overflow in a build with overflow checks and wraps in one without
LocateSector(sector_in_block) ==
    /\ calc.kind = "pointer" /\ calc.op = "allocate_block"
    /\ calc.id # DD_BLOCK_UNUSED
    /\ calc' = [calc EXCEPT !.op = "calc_sector_pos",
                            !.ok = ~ sum_wraps(calc.id, sector_in_block),
                            !.err = IF ~ sum_wraps(calc.id, sector_in_block) THEN ""
                                    ELSE IF dbg THEN "panic" ELSE "wrapped",
                            !.val = sector_sum(calc.id, sector_in_block)]
    /\ UNCHANGED <<fs, jfile, img, jrn, res, nid, dbg, created, wlog>>

PointerNext ==
    \/ AllocatePointer
    \/ \E s \in {0, 4095} : LocateSector(s)

PointerSpec == PointerInit /\ [][PointerNext]_vars

====
